---- MODULE Spec2Model ----
(***************************************************************************)
(* Authorization gate of the harvest logbook: the SpiceDB relationship     *)
(* store with the declared schema, the service wrapper (checkPermission,   *)
(* createRelationship, deleteRelationship, lookupResources) and the API    *)
(* middleware built on it.                                                 *)
(***************************************************************************)
EXTENDS Integers, Sequences, FiniteSets, TLC

VARIABLES store, rev, wr, op, schema, vectors, events, responses, log, entries,
          vectorIds, now, csv

\* the harvest logbook behind the gate: the vector index, the events emitted
\* and not yet handled, the agent responses kept in state, the logger's
\* records, the state groups harvest-entries and harvest-vectors, the value
\* of Date.now(), and the CSV file with the logEntry calls in flight
pipeline == <<vectors, events, responses, log, entries, vectorIds, now, csv>>

vars == <<store, rev, wr, op, schema, vectors, events, responses, log, entries,
          vectorIds, now, csv>>

----------------------------------------------------------------------------
(* Bounds *)

\* largest number of relationship tuples in a store the schema checks start from
MaxTuples == 2
\* largest write revision the store reaches
MaxRev == 4
\* largest number of API requests the logbook's handlers have logged
MaxRequests == 2
\* largest value Date.now() reaches
MaxNow == 2
\* number of logEntry calls in flight on the CSV logger
MaxCalls == 3
\* longest text given to splitText
MaxLen == 4
\* largest chunkSize given to splitText
MaxChunk == 3

----------------------------------------------------------------------------
(* Object identifiers used by the scripts and the documentation *)

Users == {"user_alice", "user_bob"}
Orgs == {"org_1", "org_2"}
Farms == {"farm_1", "farm_2"}
Entries == {"entry_1"}
Sessions == {"session_1"}

ResourceTypes == {"organization", "farm", "harvest_entry", "query_session"}

PermissionNames == {"view", "edit", "query", "manage", "delete", "execute", "view_results"}

Ids(type) ==
  CASE type = "user" -> Users
    [] type = "organization" -> Orgs
    [] type = "farm" -> Farms
    [] type = "harvest_entry" -> Entries
    [] type = "query_session" -> Sessions
    [] OTHER -> {}

\* v1.Relationship.create({resource, relation, subject})
Relationship(rt, rid, rel, st, sid) ==
  [resourceType |-> rt, resourceId |-> rid, relation |-> rel,
   subjectType |-> st, subjectId |-> sid]

----------------------------------------------------------------------------
(* The declared schema *)

\* relation declarations: <<resource type, relation, subject type>>
SchemaRelations ==
  { <<"organization", "admin", "user">>,
    <<"organization", "member", "user">>,
    <<"farm", "organization", "organization">>,
    <<"farm", "owner", "user">>,
    <<"farm", "editor", "user">>,
    <<"farm", "viewer", "user">>,
    <<"harvest_entry", "farm", "farm">>,
    <<"harvest_entry", "creator", "user">>,
    <<"query_session", "farm", "farm">>,
    <<"query_session", "user", "user">>
  }

\* permission declarations per resource type
SchemaPermissions(rt) ==
  CASE rt = "organization" -> {"view", "edit", "query", "manage"}
    [] rt = "farm" -> {"view", "edit", "query", "manage"}
    [] rt = "harvest_entry" -> {"view", "edit", "delete"}
    [] rt = "query_session" -> {"execute", "view_results"}
    [] OTHER -> {}

\* every relationship the schema admits over the identifiers above
AllTuples ==
  UNION { { Relationship(d[1], rid, d[2], d[3], sid) :
              rid \in Ids(d[1]), sid \in Ids(d[3]) } : d \in SchemaRelations }

\* a bare relation reference in a permission expression
Leaf(rel) == [kind |-> "relation", rel |-> rel, type |-> "user", perm |-> ""]

\* a traversal rel->perm, rel pointing at objects of type tt
Arrow(rel, tt, perm) == [kind |-> "arrow", rel |-> rel, type |-> tt, perm |-> perm]

\* A + B + ... read as A & B & ... : one alternative that needs every operand
UnionNeedsAll(operands) == { operands }

\* A + B + ... : one alternative per operand
Union(operands) == { {a} : a \in operands }

\* A & B : one alternative that needs both operands
Intersection(a, b) == { {a, b} }

\* definition organization; the relation admin is also referenced by
\* organization->admin
OrganizationDefinition(p) ==
  CASE p = "view" -> Union({Leaf("admin"), Leaf("member")})
    [] p = "edit" -> Union({Leaf("admin"), Leaf("member")})
    [] p = "query" -> Union({Leaf("admin"), Leaf("member")})
    [] p = "manage" -> Union({Leaf("admin")})
    [] p = "admin" -> Union({Leaf("admin")})
    [] OTHER -> {}

\* definition farm with viewer added to edit
FarmDefinitionViewerEdits(p) ==
  CASE p = "view" -> Union({Leaf("viewer"), Leaf("editor"), Leaf("owner"),
                            Arrow("organization", "organization", "view")})
    [] p = "edit" -> Union({Leaf("viewer"), Leaf("editor"), Leaf("owner"),
                            Arrow("organization", "organization", "edit")})
    [] p = "query" -> Union({Leaf("viewer"), Leaf("editor"), Leaf("owner"),
                             Arrow("organization", "organization", "query")})
    [] p = "manage" -> Union({Leaf("owner"),
                              Arrow("organization", "organization", "admin")})
    [] OTHER -> {}

\* definition farm with manage inherited from organization->edit
FarmDefinitionMembersManage(p) ==
  CASE p = "view" -> Union({Leaf("viewer"), Leaf("editor"), Leaf("owner"),
                            Arrow("organization", "organization", "view")})
    [] p = "edit" -> Union({Leaf("editor"), Leaf("owner"),
                            Arrow("organization", "organization", "edit")})
    [] p = "query" -> Union({Leaf("viewer"), Leaf("editor"), Leaf("owner"),
                             Arrow("organization", "organization", "query")})
    [] p = "manage" -> Union({Leaf("owner"),
                              Arrow("organization", "organization", "edit")})
    [] OTHER -> {}

\* definition farm with query kept from viewers
FarmDefinitionQueryWithoutViewer(p) ==
  CASE p = "view" -> Union({Leaf("viewer"), Leaf("editor"), Leaf("owner"),
                            Arrow("organization", "organization", "view")})
    [] p = "edit" -> Union({Leaf("editor"), Leaf("owner"),
                            Arrow("organization", "organization", "edit")})
    [] p = "query" -> Union({Leaf("editor"), Leaf("owner"),
                             Arrow("organization", "organization", "query")})
    [] p = "manage" -> Union({Leaf("owner"),
                              Arrow("organization", "organization", "admin")})
    [] OTHER -> {}

\* definition farm
FarmDefinition(p) ==
  CASE p = "view" -> Union({Leaf("viewer"), Leaf("editor"), Leaf("owner"),
                            Arrow("organization", "organization", "view")})
    [] p = "edit" -> Union({Leaf("editor"), Leaf("owner"),
                            Arrow("organization", "organization", "edit")})
    [] p = "query" -> Union({Leaf("viewer"), Leaf("editor"), Leaf("owner"),
                             Arrow("organization", "organization", "query")})
    [] p = "manage" -> Union({Leaf("owner"),
                              Arrow("organization", "organization", "admin")})
    [] OTHER -> {}

\* definition harvest_entry
HarvestEntryDefinition(p) ==
  CASE p = "view" -> Union({Arrow("farm", "farm", "view")})
    [] p = "edit" -> Union({Arrow("farm", "farm", "edit")})
    [] p = "delete" -> Union({Leaf("creator"), Arrow("farm", "farm", "manage")})
    [] OTHER -> {}

\* definition query_session with + written for &
QuerySessionDefinitionUnion(p) ==
  CASE p = "execute" -> Union({Leaf("user"), Arrow("farm", "farm", "query")})
    [] p = "view_results" -> Union({Leaf("user"), Arrow("farm", "farm", "view")})
    [] OTHER -> {}

\* definition query_session
QuerySessionDefinition(p) ==
  CASE p = "execute" -> Intersection(Leaf("user"), Arrow("farm", "farm", "query"))
    [] p = "view_results" -> Intersection(Leaf("user"), Arrow("farm", "farm", "view"))
    [] OTHER -> {}

\* the permission expressions of the schema, as alternatives of conjoined operands
PermissionExpr(rt, p) ==
  CASE rt = "organization" -> OrganizationDefinition(p)
    [] rt = "farm" -> FarmDefinition(p)
    [] rt = "harvest_entry" -> HarvestEntryDefinition(p)
    [] rt = "query_session" -> QuerySessionDefinition(p)
    [] OTHER -> {}

\* HasPermission with a traversal that needs every target to satisfy perm
RECURSIVE HasPermissionAllTargets(_, _, _, _, _)
HasPermissionAllTargets(st, u, rt, rid, p) ==
  \E alt \in PermissionExpr(rt, p) :
     \A a \in alt :
        IF a.kind = "relation"
          THEN Relationship(rt, rid, a.rel, "user", u) \in st
          ELSE LET targets == { x \in Ids(a.type) :
                                  Relationship(rt, rid, a.rel, a.type, x) \in st }
               IN /\ targets # {}
                  /\ \A x \in targets : HasPermissionAllTargets(st, u, a.type, x, a.perm)

\* HasPermission with a traversal that does not follow the relation: any
\* object of the target type counts as a target
RECURSIVE HasPermissionAnyObject(_, _, _, _, _)
HasPermissionAnyObject(st, u, rt, rid, p) ==
  \E alt \in PermissionExpr(rt, p) :
     \A a \in alt :
        IF a.kind = "relation"
          THEN Relationship(rt, rid, a.rel, "user", u) \in st
          ELSE \E x \in Ids(a.type) : HasPermissionAnyObject(st, u, a.type, x, a.perm)

\* HasPermission with a traversal that follows the relation only when it has
\* a single target
RECURSIVE HasPermissionSingleTarget(_, _, _, _, _)
HasPermissionSingleTarget(st, u, rt, rid, p) ==
  \E alt \in PermissionExpr(rt, p) :
     \A a \in alt :
        IF a.kind = "relation"
          THEN Relationship(rt, rid, a.rel, "user", u) \in st
          ELSE LET targets == { x \in Ids(a.type) :
                                  Relationship(rt, rid, a.rel, a.type, x) \in st }
               IN /\ Cardinality(targets) = 1
                  /\ \A x \in targets : HasPermissionSingleTarget(st, u, a.type, x, a.perm)

\* the store's evaluation of permission p of user u on resource rt:rid over
\* the tuples st: some alternative has all its operands satisfied; a
\* traversal is satisfied by some target of the relation
RECURSIVE HasPermission(_, _, _, _, _)
HasPermission(st, u, rt, rid, p) ==
  \E alt \in PermissionExpr(rt, p) :
     \A a \in alt :
        IF a.kind = "relation"
          THEN Relationship(rt, rid, a.rel, "user", u) \in st
          ELSE \E x \in Ids(a.type) :
                  /\ Relationship(rt, rid, a.rel, a.type, x) \in st
                  /\ HasPermission(st, u, a.type, x, a.perm)

\* the store's reverse walk for LookupResources: per alternative, the
\* resources of type rt whose tuples lead back to the user
RECURSIVE LookupPaths(_, _, _, _)
LookupPaths(st, u, rt, p) ==
  LET Reached(a) ==
        IF a.kind = "relation"
          THEN { t.resourceId : t \in { x \in st : /\ x.resourceType = rt
                                                   /\ x.relation = a.rel
                                                   /\ x.subjectType = "user"
                                                   /\ x.subjectId = u } }
          ELSE LET mid == { m.id : m \in LookupPaths(st, u, a.type, a.perm) }
               IN { t.resourceId : t \in { x \in st : /\ x.resourceType = rt
                                                        /\ x.relation = a.rel
                                                        /\ x.subjectType = a.type
                                                        /\ x.subjectId \in mid } }
      InAll(alt) == { r \in Ids(rt) : \A a \in alt : r \in Reached(a) }
  IN UNION { { [id |-> r, via |-> alt] : r \in InAll(alt) } :
               alt \in PermissionExpr(rt, p) }

----------------------------------------------------------------------------
(* The store's API, as the service reaches it through the client *)

\* an absent or empty value (undefined and '' are both falsy)
None == ""

Permissionships ==
  {"PERMISSIONSHIP_UNSPECIFIED", "NO_PERMISSION", "HAS_PERMISSION", "CONDITIONAL_PERMISSION"}

\* revisions a read may be evaluated at, the head revision being r
ReadRevisions(consistency, r) ==
  IF consistency = "fullyConsistent" THEN {r} ELSE 0..r

\* a failed call of the client (store unreachable, request rejected)
Rejected == [ok |-> FALSE, permissionship |-> None, checkedAt |-> -1]

\* the answers the store can give to a CheckPermission request when its head
\* is revision r with tuples st; the tuples of earlier revisions are not kept,
\* so an answer computed at an earlier revision is unconstrained
StoreCheckPermission(st, r, request) ==
  {Rejected} \cup
  IF request.permission \notin SchemaPermissions(request.resource.objectType)
    THEN {}
    ELSE LET holds == HasPermission(st, request.subject.objectId,
                                    request.resource.objectType,
                                    request.resource.objectId,
                                    request.permission)
         IN UNION { { [ok |-> TRUE, permissionship |-> ps, checkedAt |-> at] :
                        ps \in IF at < r THEN Permissionships
                               ELSE IF holds THEN {"HAS_PERMISSION"}
                               ELSE Permissionships \ {"HAS_PERMISSION"} } :
                    at \in ReadRevisions(request.consistency, r) }

\* all sequences that list every element of the finite set S exactly once
RECURSIVE Orderings(_)
Orderings(S) ==
  IF S = {} THEN {<< >>}
  ELSE UNION { { <<x>> \o s : s \in Orderings(S \ {x}) } : x \in S }

\* the resource ids of a sequence of lookup results
RECURSIVE ResourceObjectIds(_)
ResourceObjectIds(s) ==
  IF s = << >> THEN << >> ELSE <<Head(s).id>> \o ResourceObjectIds(Tail(s))

\* the response streams the store can send for a LookupResources request: one
\* response per resource, or one per path that reaches the resource, in any order
StoreLookupResources(st, r, request) ==
  {[ok |-> FALSE, stream |-> << >>, checkedAt |-> -1]} \cup
  IF request.permission \notin SchemaPermissions(request.resourceObjectType)
    THEN {}
    ELSE LET paths == LookupPaths(st, request.subject.objectId,
                                  request.resourceObjectType, request.permission)
             ids == { m.id : m \in paths }
         IN UNION { { [ok |-> TRUE, stream |-> s, checkedAt |-> at] :
                        s \in IF at < r
                                THEN UNION { Orderings(x) :
                                             x \in SUBSET Ids(request.resourceObjectType) }
                                ELSE Orderings(ids)
                                     \cup { ResourceObjectIds(o) : o \in Orderings(paths) } } :
                    at \in ReadRevisions(request.consistency, r) }

\* the text of authzed.schema, which setupSchema writes; no schema before that
DeclaredSchema == "authzed.schema"

\* this.client.checkPermission(request): a store without schema knows no
\* object type and rejects the request
ClientCheckPermission(request) ==
  IF schema = DeclaredSchema THEN StoreCheckPermission(store, rev, request)
  ELSE {Rejected}

\* this.client.lookupResources(request), likewise
ClientLookupResources(request) ==
  IF schema = DeclaredSchema THEN StoreLookupResources(store, rev, request)
  ELSE { x \in StoreLookupResources(store, rev, request) : ~x.ok }

\* WriteRelationships: whether the schema admits the relationship of the update
SchemaAdmits(t) ==
  /\ <<t.resourceType, t.relation, t.subjectType>> \in SchemaRelations
  /\ t.resourceId # None
  /\ t.subjectId # None

\* WriteRelationships: the tuples after the updates of the request are applied
RECURSIVE ApplyUpdates(_, _)
ApplyUpdates(st, updates) ==
  IF updates = << >> THEN st
  ELSE LET u == Head(updates)
       IN ApplyUpdates(IF u.operation \in {"TOUCH", "CREATE"} THEN st \cup {u.relationship}
                       ELSE st \ {u.relationship},
                       Tail(updates))

\* WriteRelationships: whether the store with tuples st accepts the updates;
\* CREATE, unlike TOUCH, is refused for a relationship that exists, and DELETE
\* is accepted whether it exists or not
UpdatesAccepted(st, updates) ==
  \A i \in 1..Len(updates) :
     /\ SchemaAdmits(updates[i].relationship)
     /\ updates[i].operation = "CREATE" => updates[i].relationship \notin st

----------------------------------------------------------------------------
(* SpiceDBService *)

\* getSpiceDBService(): throws when no token is configured
GetSpiceDBService(tokenSet) == IF tokenSet THEN "instance" ELSE "throws"

\* CheckPermissionRequest without the fullyConsistent requirement
CheckPermissionRequestMinimizeLatency(params) ==
  [consistency |-> "minimizeLatency",
   resource |-> [objectType |-> params.resourceType, objectId |-> params.resourceId],
   permission |-> params.permission,
   subject |-> [objectType |-> "user", objectId |-> params.userId]]

\* the request built by checkPermission(params)
CheckPermissionRequest(params) ==
  [consistency |-> "fullyConsistent",
   resource |-> [objectType |-> params.resourceType, objectId |-> params.resourceId],
   permission |-> params.permission,
   subject |-> [objectType |-> "user", objectId |-> params.userId]]

\* CheckPermissionResult comparing against NO_PERMISSION instead
CheckPermissionResultNotDenied(response) ==
  IF response.ok
    THEN [threw |-> FALSE, value |-> (response.permissionship # "NO_PERMISSION"),
          error |-> None]
    ELSE [threw |-> TRUE, value |-> FALSE, error |-> "Authorization check failed"]

\* what checkPermission makes of the client's response
CheckPermissionResult(response) ==
  IF response.ok
    THEN [threw |-> FALSE, value |-> (response.permissionship = "HAS_PERMISSION"),
          error |-> None]
    ELSE [threw |-> TRUE, value |-> FALSE, error |-> "Authorization check failed"]

\* CreateRelationshipRequest with OPERATION_CREATE for OPERATION_TOUCH
CreateRelationshipRequestCreate(params) ==
  [updates |-> << [operation |-> "CREATE",
                   relationship |-> Relationship(params.resourceType, params.resourceId,
                                                 params.relation, params.subjectType,
                                                 params.subjectId)] >>]

\* the request built by createRelationship(params)
CreateRelationshipRequest(params) ==
  [updates |-> << [operation |-> "TOUCH",
                   relationship |-> Relationship(params.resourceType, params.resourceId,
                                                 params.relation, params.subjectType,
                                                 params.subjectId)] >>]

\* DeleteRelationshipRequest with the operation of createRelationship
DeleteRelationshipRequestTouch(params) ==
  [updates |-> << [operation |-> "TOUCH",
                   relationship |-> Relationship(params.resourceType, params.resourceId,
                                                 params.relation, params.subjectType,
                                                 params.subjectId)] >>]

\* the request built by deleteRelationship(params)
DeleteRelationshipRequest(params) ==
  [updates |-> << [operation |-> "DELETE",
                   relationship |-> Relationship(params.resourceType, params.resourceId,
                                                 params.relation, params.subjectType,
                                                 params.subjectId)] >>]

\* the request built by lookupResources(userId, resourceType, permission)
LookupResourcesRequest(userId, resourceType, permission) ==
  [consistency |-> "fullyConsistent",
   resourceObjectType |-> resourceType,
   permission |-> permission,
   subject |-> [objectType |-> "user", objectId |-> userId]]

\* CollectResourceIds that loses the first response of the stream
CollectResourceIdsSkipFirst(stream) ==
  IF stream = << >> THEN << >>
  ELSE SelectSeq(Tail(stream), LAMBDA id : id # None)

\* the loop of lookupResources over the response stream
CollectResourceIds(stream) == SelectSeq(stream, LAMBDA id : id # None)

----------------------------------------------------------------------------
(* Authorization middleware *)

\* createSpiceDBMiddleware(config)
Middleware(resourceType, permission, getUserId, getResourceId) ==
  [resourceType |-> resourceType, permission |-> permission,
   getUserId |-> getUserId, getResourceId |-> getResourceId]

harvestEntryEditMiddleware == Middleware("farm", "edit", None, None)

harvestQueryMiddleware == Middleware("farm", "query", None, None)

harvestViewMiddleware == Middleware("farm", "view", None, None)

harvestManageMiddleware == Middleware("farm", "manage", None, None)

ExportedMiddlewares ==
  { harvestEntryEditMiddleware, harvestQueryMiddleware,
    harvestViewMiddleware, harvestManageMiddleware }

\* configurations with a permission the farm type does not declare, and with
\* extractors that throw
CustomMiddlewares ==
  { Middleware("farm", "delete", None, None),
    Middleware("farm", "view", "throws", None),
    Middleware("farm", "view", None, "throws") }

\* a request: the x-user-id header, body.userId, body.farmId,
\* body.organizationId and pathParams.id, each possibly absent
Request(xUserId, bodyUserId, farmId, organizationId, pathId) ==
  [xUserId |-> xUserId, bodyUserId |-> bodyUserId, farmId |-> farmId,
   organizationId |-> organizationId, pathId |-> pathId]

\* the documented authorized request: x-user-id user_alice, farmId farm_1
AuthorizedRequest == Request("user_alice", None, "farm_1", None, None)

Requests ==
  { AuthorizedRequest,
    Request("user_bob", None, "farm_1", None, None),
    Request(None, "user_alice", "farm_1", None, None),
    Request("user_bob", "user_alice", "farm_1", None, None),
    Request(None, None, "farm_1", None, None),
    Request(None, None, None, None, None),
    Request("user_alice", None, None, None, None),
    Request("user_alice", None, None, "org_1", None),
    Request("user_alice", None, None, None, "farm_2"),
    Request("user_alice", None, "farm_1", "org_1", "farm_2") }

\* a || b
OrElse(a, b) == IF a # None THEN a ELSE b

\* config.getUserId ? config.getUserId(req) : header || body.userId
ExtractUserId(config, req) ==
  IF config.getUserId # None
    THEN [threw |-> TRUE, value |-> None]
    ELSE [threw |-> FALSE, value |-> OrElse(req.xUserId, req.bodyUserId)]

\* config.getResourceId ? config.getResourceId(req)
\*   : body.farmId || body.organizationId || pathParams.id
ExtractResourceId(config, req) ==
  IF config.getResourceId # None
    THEN [threw |-> TRUE, value |-> None]
    ELSE [threw |-> FALSE,
          value |-> OrElse(OrElse(req.farmId, req.organizationId), req.pathId)]

NoParams == [userId |-> None, resourceType |-> None, resourceId |-> None, permission |-> None]

NoAuthz == [userId |-> None, resourceId |-> None, resourceType |-> None, permission |-> None]

Idle == [kind |-> "idle", pc |-> "idle"]

\* a run of the middleware that has not returned yet
MiddlewareRun(config, req, tokenSet) ==
  [kind |-> "middleware", pc |-> "started", config |-> config, req |-> req,
   tokenSet |-> tokenSet, checkCalled |-> FALSE, params |-> NoParams,
   issuedAt |-> -1, answered |-> FALSE, checkedAt |-> -1,
   permissionship |-> None, hasPermission |-> FALSE,
   authz |-> NoAuthz, nextCalled |-> FALSE, status |-> 0, error |-> None]

\* the middleware returns a response of its own
Respond(run, status, error) ==
  [run EXCEPT !.pc = "done", !.status = status, !.error = error]

\* MiddlewareStart that looks for the resource id before the user id
MiddlewareStartResourceFirst(config, req, tokenSet, r) ==
  LET run == MiddlewareRun(config, req, tokenSet)
      uid == ExtractUserId(config, req)
      rid == ExtractResourceId(config, req)
  IN IF rid.threw THEN Respond(run, 500, "Internal Server Error")
     ELSE IF rid.value = None THEN Respond(run, 400, "Bad Request")
     ELSE IF uid.threw THEN Respond(run, 500, "Internal Server Error")
     ELSE IF uid.value = None THEN Respond(run, 401, "Unauthorized")
     ELSE IF GetSpiceDBService(tokenSet) = "throws"
       THEN Respond(run, 500, "Internal Server Error")
     ELSE [run EXCEPT !.pc = "awaiting", !.checkCalled = TRUE, !.issuedAt = r,
                      !.params = [userId |-> uid.value,
                                  resourceType |-> config.resourceType,
                                  resourceId |-> rid.value,
                                  permission |-> config.permission]]

\* the middleware up to the call of checkPermission
MiddlewareStart(config, req, tokenSet, r) ==
  LET run == MiddlewareRun(config, req, tokenSet)
      uid == ExtractUserId(config, req)
      rid == ExtractResourceId(config, req)
  IN IF uid.threw THEN Respond(run, 500, "Internal Server Error")
     ELSE IF uid.value = None THEN Respond(run, 401, "Unauthorized")
     ELSE IF rid.threw THEN Respond(run, 500, "Internal Server Error")
     ELSE IF rid.value = None THEN Respond(run, 400, "Bad Request")
     ELSE IF GetSpiceDBService(tokenSet) = "throws"
       THEN Respond(run, 500, "Internal Server Error")
     ELSE [run EXCEPT !.pc = "awaiting", !.checkCalled = TRUE, !.issuedAt = r,
                      !.params = [userId |-> uid.value,
                                  resourceType |-> config.resourceType,
                                  resourceId |-> rid.value,
                                  permission |-> config.permission]]

\* MiddlewareFinish with a catch block that lets the request through
MiddlewareFinishFailOpen(run, response, handler) ==
  LET result == CheckPermissionResult(response)
      seen == [run EXCEPT !.answered = response.ok,
                          !.checkedAt = response.checkedAt,
                          !.permissionship = response.permissionship]
  IN IF ~result.threw /\ ~result.value THEN Respond(seen, 403, "Forbidden")
     ELSE LET granted == [seen EXCEPT !.hasPermission = result.value,
                                      !.authz = [userId |-> run.params.userId,
                                                 resourceId |-> run.params.resourceId,
                                                 resourceType |-> run.config.resourceType,
                                                 permission |-> run.config.permission],
                                      !.nextCalled = TRUE]
          IN IF handler = "returns" THEN Respond(granted, 200, None)
             ELSE Respond(granted, 500, "Internal Server Error")

\* the middleware from the answer of checkPermission on; handler is what
\* next() does when it is called
MiddlewareFinish(run, response, handler) ==
  LET result == CheckPermissionResult(response)
      seen == [run EXCEPT !.answered = response.ok,
                          !.checkedAt = response.checkedAt,
                          !.permissionship = response.permissionship]
  IN IF result.threw THEN Respond(seen, 500, "Internal Server Error")
     ELSE IF ~result.value THEN Respond(seen, 403, "Forbidden")
     ELSE LET granted == [seen EXCEPT !.hasPermission = TRUE,
                                      !.authz = [userId |-> run.params.userId,
                                                 resourceId |-> run.params.resourceId,
                                                 resourceType |-> run.config.resourceType,
                                                 permission |-> run.config.permission],
                                      !.nextCalled = TRUE]
          IN IF handler = "returns" THEN Respond(granted, 200, None)
             ELSE Respond(granted, 500, "Internal Server Error")

MwBegin(config, req, tokenSet) ==
  /\ op.pc = "idle"
  /\ op' = MiddlewareStart(config, req, tokenSet, rev)
  /\ UNCHANGED <<store, rev, wr, schema, pipeline>>

\* MwAnswer that also records a granted check as a viewer relationship
MwAnswerRecordsGrant ==
  /\ op.kind = "middleware"
  /\ op.pc = "awaiting"
  /\ \E response \in ClientCheckPermission(CheckPermissionRequest(op.params)),
        handler \in {"returns", "throws"} :
        /\ op' = MiddlewareFinish(op, response, handler)
        /\ store' = IF op'.nextCalled
                      THEN store \cup { Relationship(op.params.resourceType,
                                                     op.params.resourceId, "viewer",
                                                     "user", op.params.userId) }
                      ELSE store
  /\ UNCHANGED <<rev, wr, schema, pipeline>>

MwAnswer ==
  /\ op.kind = "middleware"
  /\ op.pc = "awaiting"
  /\ \E response \in ClientCheckPermission(CheckPermissionRequest(op.params)),
        handler \in {"returns", "throws"} :
        op' = MiddlewareFinish(op, response, handler)
  /\ UNCHANGED <<store, rev, wr, schema, pipeline>>

\* the caller is done with the outcome of its call
Return ==
  /\ op.pc = "done"
  /\ op' = Idle
  /\ UNCHANGED <<store, rev, wr, schema, pipeline>>

----------------------------------------------------------------------------
(* Relationship writes *)

NoWrite == [call |-> None, params |-> None, error |-> None, cause |-> None]

\* the relationships the sample-permission scripts and the documentation
\* write, and one the schema does not admit
WriteParams ==
  { Relationship("organization", "org_1", "admin", "user", "user_alice"),
    Relationship("farm", "farm_1", "organization", "organization", "org_1"),
    Relationship("farm", "farm_1", "owner", "user", "user_alice"),
    Relationship("farm", "farm_1", "admin", "user", "user_bob") }

\* the error the client throws for a write the store did not apply: the
\* status of a request the store refuses, or of a store that is not reached
StoreError(st, updates) ==
  IF schema = DeclaredSchema /\ UpdatesAccepted(st, updates)
    THEN "UNAVAILABLE"
    ELSE "FAILED_PRECONDITION"

\* client.writeRelationships(request): the store applies the updates as one
\* new revision, or rejects the request and changes nothing; the caller is
\* left with the relationship it wrote, or with the error thrown, which
\* carries the fixed message only, while the error caught (cause) goes to
\* console.error
WriteRelationships(request, call, params, message) ==
  \/ /\ schema = DeclaredSchema
     /\ UpdatesAccepted(store, request.updates)
     /\ rev < MaxRev
     /\ store' = ApplyUpdates(store, request.updates)
     /\ rev' = rev + 1
     /\ wr' = [call |-> call, params |-> params, error |-> None, cause |-> None]
  \/ /\ wr' = [call |-> call, params |-> None, error |-> message,
               cause |-> StoreError(store, request.updates)]
     /\ UNCHANGED <<store, rev>>

createRelationship(params) ==
  /\ WriteRelationships(CreateRelationshipRequest(params), "createRelationship", params,
                        "Failed to create authorization relationship")
  /\ UNCHANGED <<op, schema, pipeline>>

deleteRelationship(params) ==
  /\ WriteRelationships(DeleteRelationshipRequest(params), "deleteRelationship", params,
                        "Failed to delete authorization relationship")
  /\ UNCHANGED <<op, schema, pipeline>>

\* writeSchema(text), as setupSchema calls it: the store keeps the text as
\* its schema, or rejects the request and changes nothing
writeSchema(text) ==
  /\ \/ /\ schema' = text
        /\ wr' = [call |-> "writeSchema", params |-> None, error |-> None,
                  cause |-> None]
     \/ /\ wr' = [call |-> "writeSchema", params |-> None,
                  error |-> "Failed to write authorization schema",
                  cause |-> "UNAVAILABLE"]
        /\ UNCHANGED schema
  /\ UNCHANGED <<store, rev, op, pipeline>>

----------------------------------------------------------------------------
(* Direct calls of the service: lookups and the scripts' verification *)

LookupPermissions == {"view", "edit", "manage", "delete"}

LookupBegin(userId, resourceType, permission) ==
  /\ op.pc = "idle"
  /\ op' = [kind |-> "lookupResources", pc |-> "awaiting", userId |-> userId,
            resourceType |-> resourceType, permission |-> permission,
            issuedAt |-> rev, answered |-> FALSE, checkedAt |-> -1,
            resourceIds |-> << >>, error |-> None]
  /\ UNCHANGED <<store, rev, wr, schema, pipeline>>

LookupAnswer ==
  /\ op.kind = "lookupResources"
  /\ op.pc = "awaiting"
  /\ \E response \in ClientLookupResources(
                       LookupResourcesRequest(op.userId, op.resourceType, op.permission)) :
        op' = IF response.ok
                THEN [op EXCEPT !.pc = "done", !.answered = TRUE,
                                !.checkedAt = response.checkedAt,
                                !.resourceIds = CollectResourceIds(response.stream)]
                ELSE [op EXCEPT !.pc = "done",
                                !.error = "Failed to lookup authorized resources"]
  /\ UNCHANGED <<store, rev, wr, schema, pipeline>>

\* the values checkPermission(params) can return when the store answers
CheckValues(params) ==
  { CheckPermissionResult(response).value :
      response \in { x \in ClientCheckPermission(CheckPermissionRequest(params)) :
                       x.ok } }

\* the 'Verifying permissions' part of createSamplePermissions: view, edit,
\* query and manage of the user on the farm, or exit when a call throws
VerifyPermissions(userId, farmId) ==
  /\ op.pc = "idle"
  /\ LET P(permission) == [userId |-> userId, resourceType |-> "farm",
                           resourceId |-> farmId, permission |-> permission]
         run == [kind |-> "verify", pc |-> "done", userId |-> userId, farmId |-> farmId,
                 canView |-> FALSE, canEdit |-> FALSE, canQuery |-> FALSE,
                 canManage |-> FALSE, error |-> None]
     IN \/ \E v \in CheckValues(P("view")), e \in CheckValues(P("edit")),
              q \in CheckValues(P("query")), m \in CheckValues(P("manage")) :
              op' = [run EXCEPT !.canView = v, !.canEdit = e, !.canQuery = q,
                                !.canManage = m]
        \/ op' = [run EXCEPT !.error = "Authorization check failed"]
  /\ UNCHANGED <<store, rev, wr, schema, pipeline>>

\* no earlier call to compare with
NoResult == [value |-> FALSE, error |-> None, rev |-> -1]

\* a direct call of checkPermission(params), as the scripts and handlers make:
\* it returns the value or throws; a caller that repeats the call it has just
\* made keeps the earlier outcome and the revision it was made at
CallCheckPermission(params, previous) ==
  /\ \E response \in ClientCheckPermission(CheckPermissionRequest(params)) :
        LET result == CheckPermissionResult(response)
        IN op' = [kind |-> "checkPermission", pc |-> "done", params |-> params,
                  value |-> result.value, error |-> result.error, rev |-> rev,
                  previous |-> previous]
  /\ UNCHANGED <<store, rev, wr, schema, pipeline>>

checkPermission(params) ==
  /\ op.pc = "idle"
  /\ CallCheckPermission(params, NoResult)

checkPermissionAgain ==
  /\ op.kind = "checkPermission"
  /\ op.pc = "done"
  /\ CallCheckPermission(op.params,
                         [value |-> op.value, error |-> op.error, rev |-> op.rev])

\* the checks on harvest entries and query sessions
EntryAndSessionChecks ==
  { params \in [userId : Users, resourceType : {"harvest_entry", "query_session"},
                resourceId : Entries \cup Sessions, permission : PermissionNames] :
      /\ params.resourceId \in Ids(params.resourceType)
      /\ params.permission \in SchemaPermissions(params.resourceType) }

----------------------------------------------------------------------------
(* CSV logger *)

\* the header line initialize writes
Headers == "Timestamp,Query,Response,Sources"

\* the row logEntry builds for the entry of call c
Row(c) == <<"row", c>>

\* no file yet, and none of the logEntry calls on the one CSVLogger that
\* getCSVLogger hands out has started
CsvStart == [exists |-> FALSE, lines |-> << >>, pc |-> [c \in 1..MaxCalls |-> "idle"]]

\* the steps of the logger change the file and the calls only
CsvFrame ==
  UNCHANGED <<store, rev, wr, op, schema, vectors, events, responses, log, entries,
              vectorIds, now>>

\* logEntry(entry) is called: initialize() runs up to its first await
LogEntryBegin(c) ==
  /\ csv.pc[c] = "idle"
  /\ csv' = [csv EXCEPT !.pc[c] = "access"]
  /\ CsvFrame

\* initialize(): await fs.access(filePath) settles
InitializeAccess(c) ==
  /\ csv.pc[c] = "access"
  /\ csv' = [csv EXCEPT !.pc[c] = IF csv.exists THEN "appendFile" ELSE "writeFile"]
  /\ CsvFrame

\* initialize(): await fs.writeFile(filePath, headers) replaces the file
InitializeWriteFile(c) ==
  /\ csv.pc[c] = "writeFile"
  /\ csv' = [csv EXCEPT !.exists = TRUE, !.lines = <<Headers>>, !.pc[c] = "appendFile"]
  /\ CsvFrame

\* logEntry: await fs.appendFile(filePath, row) and return
LogEntryAppendFile(c) ==
  /\ csv.pc[c] = "appendFile"
  /\ csv' = [csv EXCEPT !.exists = TRUE, !.lines = Append(@, Row(c)), !.pc[c] = "done"]
  /\ CsvFrame

----------------------------------------------------------------------------
(* Text splitter *)

\* the setting storeEntry calls splitText with
StoreEntryConfig == [chunkSize |-> 400, chunkOverlap |-> 40]

\* text.slice(startChar, endChar) for 0 <= startChar <= endChar <= text.length
Slice(text, startChar, endChar) == SubSeq(text, startChar + 1, endChar)

\* splitText at the head of its loop, before the first iteration
SplitStart(text, config) ==
  [text |-> text, config |-> config, startChar |-> 0, index |-> 0, chunks |-> << >>]

\* the condition of the while loop
SplitGoesOn(s) == s.startChar < Len(s.text)

\* an iteration that moves on by the whole chunk, without the overlap
SplitIterationNoOverlap(s) ==
  LET reach == s.startChar + s.config.chunkSize
      endChar == IF reach <= Len(s.text) THEN reach ELSE Len(s.text)
  IN [s EXCEPT !.chunks = Append(@, [text |-> Slice(s.text, s.startChar, endChar),
                                     index |-> s.index,
                                     startChar |-> s.startChar,
                                     endChar |-> endChar]),
               !.startChar = @ + s.config.chunkSize,
               !.index = @ + 1]

\* one iteration of the while loop
SplitIteration(s) ==
  LET reach == s.startChar + s.config.chunkSize
      endChar == IF reach <= Len(s.text) THEN reach ELSE Len(s.text)
  IN [s EXCEPT !.chunks = Append(@, [text |-> Slice(s.text, s.startChar, endChar),
                                     index |-> s.index,
                                     startChar |-> s.startChar,
                                     endChar |-> endChar]),
               !.startChar = @ + s.config.chunkSize - s.config.chunkOverlap,
               !.index = @ + 1]

RECURSIVE SplitLoop(_)
SplitLoop(s) == IF SplitGoesOn(s) THEN SplitLoop(SplitIteration(s)) ELSE s.chunks

\* splitText(text, config), for a config that lets the loop end
SplitText(text, config) ==
  IF Len(text) = 0 THEN << >> ELSE SplitLoop(SplitStart(text, config))

----------------------------------------------------------------------------
(* Harvest logbook pipeline behind the gate *)

\* pinecone.query(queryEmbedding, 5)
TopK == 5

\* no id in the body
NoId == << >>

\* 'harvest-<n>'
HarvestId(n) == <<"harvest", n>>

Wheat == <<"w", "h", "e", "a", "t">>
Maize == <<"m", "a", "i", "z", "e">>

Queries == {"yield"}

\* the API requests of the users, each naming a farm in its body, and one
\* that names the farm as organizationId only
PipelineRequests ==
  { Request(u, None, f, None, None) : u \in Users, f \in Farms }
    \cup { Request("user_alice", None, None, "farm_1", None) }

\* POST /harvest_logbook and POST /harvest_logbook/query started behind their
\* middleware
ApiBegin(config, req) ==
  /\ Cardinality({ l \in log : l.step \in {"ReceiveHarvestData", "QueryHarvestLogbook"} }) < MaxRequests
  /\ MwBegin(config, req, TRUE)

\* state.set(group, key, value) on a group kept as records with their key
StateSet(group, key, value) == { x \in group : x.entryId # key } \cup {value}

\* handler of ReceiveHarvestData once the body is parsed: logs the request,
\* keeps the entry in harvest-entries, emits process-embeddings with farmId
\* and userId in the metadata and, when the body holds a query, query-agent
\* without them; a call that throws ends the handler there
ReceiveHarvestData(run, id, content, query, fault) ==
  LET entryId == IF id # NoId THEN id ELSE HarvestId(now)
      farmId == run.req.farmId
      userId == run.authz.userId
  IN /\ log' = log \cup { [step |-> "ReceiveHarvestData", entryId |-> entryId,
                           farmId |-> farmId, userId |-> userId, error |-> None] }
     /\ entries' = IF fault = "state.set" THEN entries
                   ELSE StateSet(entries, entryId,
                                 [entryId |-> entryId, content |-> content,
                                  farmId |-> farmId, userId |-> userId,
                                  query |-> query])
     /\ events' = events
          \cup (IF fault \in {None, "emit query-agent"}
                  THEN { [topic |-> "process-embeddings", entryId |-> entryId,
                          content |-> content, farmId |-> farmId, userId |-> userId] }
                  ELSE {})
          \cup (IF fault = None /\ query # None
                  THEN { [topic |-> "query-agent", entryId |-> entryId, query |-> query] }
                  ELSE {})
     /\ UNCHANGED <<vectors, responses, vectorIds, now, csv>>

\* handler of QueryHarvestLogbook once the body is parsed: logs the request
\* and emits query-agent with the query id and the query
QueryHarvestLogbook(run, query, fault) ==
  LET queryId == <<"query", now>>
  IN /\ log' = log \cup { [step |-> "QueryHarvestLogbook", entryId |-> queryId,
                           farmId |-> run.req.farmId, userId |-> run.authz.userId,
                           error |-> None] }
     /\ events' = events
          \cup (IF fault = None
                  THEN { [topic |-> "query-agent", entryId |-> queryId, query |-> query] }
                  ELSE {})
     /\ UNCHANGED <<vectors, responses, entries, vectorIds, now, csv>>

\* the middleware of an API step gets the store's answer and, when it calls
\* next(), the step's handler runs: bodySchema.parse(req.body) wants a
\* farmId; the handler returns, or one of its calls throws with what it did
\* before left in place
ApiAnswer(ids, contents) ==
  /\ op.kind = "middleware"
  /\ op.pc = "awaiting"
  /\ \E response \in ClientCheckPermission(CheckPermissionRequest(op.params)),
        fault \in {None, "state.set", "emit process-embeddings", "emit query-agent"} :
        LET parses == op.req.farmId # None
            handler == IF parses /\ fault = None THEN "returns" ELSE "throws"
            run == MiddlewareFinish(op, response, handler)
        IN /\ op' = run
           /\ IF run.nextCalled /\ parses
                THEN IF run.config = harvestEntryEditMiddleware
                       THEN \E id \in ids, content \in contents,
                               query \in Queries \cup {None} :
                               /\ fault = "emit query-agent" => query # None
                               /\ ReceiveHarvestData(run, id, content, query, fault)
                       ELSE /\ fault \in {None, "emit query-agent"}
                            /\ \E query \in Queries :
                                  QueryHarvestLogbook(run, query, fault)
                ELSE UNCHANGED pipeline
  /\ UNCHANGED <<store, rev, wr, schema>>

\* the vectors storeEntry builds for the entry of a process-embeddings
\* event: one per chunk of the content, under '<entryId>-chunk-<index>'
StoreEntryVectors(e) ==
  LET chunks == SplitText(e.content, StoreEntryConfig)
  IN { [id |-> <<e.entryId, i - 1>>, text |-> chunks[i].text,
        farmId |-> e.farmId, userId |-> e.userId] : i \in 1..Len(chunks) }

\* the ids storeEntry returns, in the order of the chunks
StoreEntryIds(e) ==
  [i \in 1..Len(SplitText(e.content, StoreEntryConfig)) |-> <<e.entryId, i - 1>>]

\* Upsert that adds the vectors and replaces none
UpsertAppends(index, upserted) == index \cup upserted

\* pinecone.upsert(vectors): a vector replaces the one stored under its id
Upsert(index, upserted) ==
  { v \in index : \A w \in upserted : w.id # v.id } \cup upserted

\* handler of ProcessEmbeddings with HarvestLogbookService.storeEntry: the
\* chunks of the entry are upserted and their ids kept in harvest-vectors;
\* when storeEntry or state.set throws, the handler rethrows and the event
\* is delivered again
ProcessEmbeddings ==
  /\ \E e \in events, fault \in {None, "storeEntry", "state.set"} :
        /\ e.topic = "process-embeddings"
        /\ vectors' = IF fault = "storeEntry" THEN vectors
                      ELSE Upsert(vectors, StoreEntryVectors(e))
        /\ vectorIds' = IF fault # None THEN vectorIds
                        ELSE StateSet(vectorIds, e.entryId,
                                      [entryId |-> e.entryId,
                                       vectorIds |-> StoreEntryIds(e),
                                       chunkCount |-> Len(StoreEntryIds(e))])
        /\ events' = IF fault # None THEN events ELSE events \ {e}
  /\ UNCHANGED <<store, rev, wr, op, schema, responses, log, entries, now, csv>>

\* pinecone.query(vector, topK) without filter: the topK closest vectors of
\* the index, whatever their metadata
PineconeQuery(topK) ==
  IF Cardinality(vectors) <= topK THEN {vectors}
  ELSE { results \in SUBSET vectors : Cardinality(results) = topK }

\* handler of QueryAgent with HarvestLogbookService.queryWithAgent: the
\* context of the answer is the text of the vectors retrieved; the response is
\* kept in agent-responses under the entry id and log-to-sheets is emitted;
\* when a call throws the handler rethrows and the event is delivered again
QueryAgent ==
  /\ \E e \in events, results \in PineconeQuery(TopK), fault \in {None, "queryWithAgent", "emit log-to-sheets"} :
        /\ e.topic = "query-agent"
        /\ responses' = IF fault = "queryWithAgent" THEN responses
                        ELSE StateSet(responses, e.entryId,
                                      [entryId |-> e.entryId, query |-> e.query,
                                       context |-> { v.text : v \in results },
                                       sources |-> { v.id : v \in results }])
        /\ events' = IF fault # None THEN events
                     ELSE (events \ {e})
                            \cup { [topic |-> "log-to-sheets", entryId |-> e.entryId,
                                    query |-> e.query] }
  /\ UNCHANGED <<store, rev, wr, op, schema, vectors, log, entries, vectorIds, now, csv>>

\* LogToSheets that rethrows, so that the event is delivered again
LogToSheetsRethrows ==
  /\ \E e \in events, outcome \in {"logged", "throws"} :
        /\ e.topic = "log-to-sheets"
        /\ log' = log \cup { [step |-> "LogToSheets", entryId |-> e.entryId,
                              farmId |-> None, userId |-> None,
                              error |-> IF outcome = "logged" THEN None
                                        ELSE "Failed to log to Google Sheets"] }
        /\ events' = IF outcome = "logged" THEN events \ {e} ELSE events
  /\ UNCHANGED <<store, rev, wr, op, schema, vectors, responses, entries, vectorIds,
                 now, csv>>

\* handler of LogToSheets: the query and its response are logged; a failure
\* is logged as an error and not thrown, so the event is done either way
LogToSheets ==
  /\ \E e \in events, outcome \in {"logged", "throws"} :
        /\ e.topic = "log-to-sheets"
        /\ log' = log \cup { [step |-> "LogToSheets", entryId |-> e.entryId,
                              farmId |-> None, userId |-> None,
                              error |-> IF outcome = "logged" THEN None
                                        ELSE "Failed to log to Google Sheets"] }
        /\ events' = events \ {e}
  /\ UNCHANGED <<store, rev, wr, op, schema, vectors, responses, entries, vectorIds,
                 now, csv>>

\* Date.now() moves on
Tick ==
  /\ now < MaxNow
  /\ now' = now + 1
  /\ UNCHANGED <<store, rev, wr, op, schema, vectors, events, responses, log, entries,
                 vectorIds, csv>>

\* nothing was stored, emitted, answered or logged yet
PipelineEmpty ==
  /\ vectors = {}
  /\ events = {}
  /\ responses = {}
  /\ log = {}
  /\ entries = {}
  /\ vectorIds = {}
  /\ now = 0
  /\ csv = CsvStart

----------------------------------------------------------------------------
(* Specifications *)

\* the manage checks of the users on farm_1, as the sample script makes them
ManageChecks ==
  { [userId |-> u, resourceType |-> "farm", resourceId |-> "farm_1",
     permission |-> "manage"] : u \in Users }

\* the gate at work, from a store that was just started: schema setup,
\* writers, middleware runs, lookups and checks interleave
Init ==
  /\ store = {}
  /\ rev = 0
  /\ wr = NoWrite
  /\ op = Idle
  /\ schema = None
  /\ PipelineEmpty

Next ==
  \/ writeSchema(DeclaredSchema)
  \/ \E params \in WriteParams : createRelationship(params)
  \/ \E params \in WriteParams : deleteRelationship(params)
  \/ \E config \in ExportedMiddlewares, req \in Requests : MwBegin(config, req, TRUE)
  \/ \E config \in CustomMiddlewares : MwBegin(config, AuthorizedRequest, TRUE)
  \/ \E config \in ExportedMiddlewares : MwBegin(config, AuthorizedRequest, FALSE)
  \/ MwAnswer
  \/ \E userId \in Users, permission \in LookupPermissions :
        LookupBegin(userId, "farm", permission)
  \/ LookupAnswer
  \/ \E params \in ManageChecks : checkPermission(params)
  \/ checkPermissionAgain
  \/ Return

Spec == Init /\ [][Next]_vars

\* all sets of at most k elements of S
RECURSIVE SubsetsUpTo(_, _)
SubsetsUpTo(S, k) ==
  IF k = 0 THEN {{}}
  ELSE LET smaller == SubsetsUpTo(S, k - 1)
       IN smaller \cup UNION { { s \cup {t} : t \in S } : s \in smaller }

\* the store after createSamplePermissions ran with its defaults
SampleStore ==
  { Relationship("organization", "org_1", "admin", "user", "user_alice"),
    Relationship("farm", "farm_1", "organization", "organization", "org_1"),
    Relationship("farm", "farm_1", "owner", "user", "user_alice") }

\* a query session of user_alice on farm_1, which she may view and query
SessionStore ==
  { Relationship("query_session", "session_1", "user", "user", "user_alice"),
    Relationship("query_session", "session_1", "farm", "farm", "farm_1"),
    Relationship("farm", "farm_1", "viewer", "user", "user_alice") }

\* a harvest entry of farm_1, which belongs to org_1, where user_alice is member
EntryStore ==
  { Relationship("harvest_entry", "entry_1", "farm", "farm", "farm_1"),
    Relationship("farm", "farm_1", "organization", "organization", "org_1"),
    Relationship("organization", "org_1", "member", "user", "user_alice") }

\* farm_1 linked to two organizations, user_alice member of the first only
TwoOrganizationsStore ==
  { Relationship("farm", "farm_1", "organization", "organization", "org_1"),
    Relationship("farm", "farm_1", "organization", "organization", "org_2"),
    Relationship("organization", "org_1", "member", "user", "user_alice") }

\* farm_1 linked to two organizations, user_alice member of both
BothOrganizationsStore ==
  TwoOrganizationsStore \cup
  { Relationship("organization", "org_2", "member", "user", "user_alice") }

\* stores that use each definition of the schema to its full depth
ScenarioStores ==
  {SampleStore, SessionStore, EntryStore, TwoOrganizationsStore, BothOrganizationsStore}

\* the schema over every small store: the store holds any relationships the
\* schema admits, or those of a scenario, and the service is asked about them
InitSchema ==
  /\ store \in SubsetsUpTo(AllTuples, MaxTuples) \cup ScenarioStores
  /\ rev = 0
  /\ wr = NoWrite
  /\ op = Idle
  /\ schema = DeclaredSchema
  /\ PipelineEmpty

NextSchema ==
  \/ \E userId \in Users, farmId \in Farms : VerifyPermissions(userId, farmId)
  \/ \E params \in EntryAndSessionChecks : checkPermission(params)
  \/ \E userId \in Users, permission \in LookupPermissions :
        LookupBegin(userId, "farm", permission)
  \/ LookupBegin("farm_1", "user", "edit")
  \/ LookupAnswer
  \/ Return

SpecSchema == InitSchema /\ [][NextSchema]_vars

\* the store holds any small set of relationships and has one revision left
\* for a write; every relationship the schema admits is written or deleted,
\* and the one of WriteParams it does not admit
InitWrites ==
  /\ store \in SubsetsUpTo(AllTuples, MaxTuples) \cup {SampleStore}
  /\ rev = MaxRev - 1
  /\ wr = NoWrite
  /\ op = Idle
  /\ schema = DeclaredSchema
  /\ PipelineEmpty

\* one relationship of every relation of the schema, on the first resource of
\* each type, and the link of farm_1 to a second organization
SchemaWriteParams ==
  { t \in AllTuples : /\ t.resourceId \in {"org_1", "farm_1", "entry_1", "session_1"}
                      /\ t.subjectId \in {"user_alice", "org_1", "org_2", "farm_1"} }

NextWrites ==
  \/ \E params \in SchemaWriteParams \cup WriteParams : createRelationship(params)
  \/ \E params \in SchemaWriteParams \cup WriteParams : deleteRelationship(params)

SpecWrites == InitWrites /\ [][NextWrites]_vars

\* two farms with one owner each
TwoFarmsStore ==
  { Relationship("farm", "farm_1", "owner", "user", "user_alice"),
    Relationship("farm", "farm_2", "owner", "user", "user_bob") }

\* the logbook in use: the owners store entries and query through the API
InitPipeline ==
  /\ store = TwoFarmsStore
  /\ rev = 0
  /\ wr = NoWrite
  /\ op = Idle
  /\ schema = DeclaredSchema
  /\ PipelineEmpty

NextPipeline ==
  \/ \E req \in PipelineRequests : ApiBegin(harvestEntryEditMiddleware, req)
  \/ \E req \in PipelineRequests : ApiBegin(harvestQueryMiddleware, req)
  \/ ApiAnswer({HarvestId(1)}, {Wheat})
  \/ Return
  \/ ProcessEmbeddings
  \/ QueryAgent
  \/ LogToSheets

SpecPipeline == InitPipeline /\ [][NextPipeline]_vars

\* the API steps with bodies that leave the id out, while time passes or not
\* between two requests
NextIds ==
  \/ \E req \in PipelineRequests : ApiBegin(harvestEntryEditMiddleware, req)
  \/ \E req \in PipelineRequests : ApiBegin(harvestQueryMiddleware, req)
  \/ ApiAnswer({NoId}, {Wheat, Maize})
  \/ Return
  \/ Tick

SpecIds == InitPipeline /\ [][NextIds]_vars

\* a content of two chunks: characters 0..399 and 360..449
LongContent == [i \in 1..450 |-> "a"]

\* one process-embeddings event is to be handled, over an index that holds
\* vectors already; the handler fails any number of times before it succeeds
InitRetry ==
  /\ store = TwoFarmsStore
  /\ rev = 0
  /\ wr = NoWrite
  /\ op = Idle
  /\ schema = DeclaredSchema
  /\ vectors \in SUBSET
       ({ [id |-> <<HarvestId(1), i>>, text |-> Maize, farmId |-> "farm_2",
           userId |-> "user_bob"] : i \in 0..2 }
          \cup { [id |-> <<HarvestId(2), 0>>, text |-> Wheat, farmId |-> "farm_1",
                  userId |-> "user_alice"] })
  /\ events \in
       { { [topic |-> "process-embeddings", entryId |-> id, content |-> content,
            farmId |-> "farm_1", userId |-> "user_alice"] } :
           id \in {HarvestId(1), HarvestId(2)}, content \in {Wheat, Maize, LongContent} }
  /\ responses = {}
  /\ log = {}
  /\ entries = {}
  /\ vectorIds = {}
  /\ now = 0
  /\ csv = CsvStart

SpecRetry == InitRetry /\ [][ProcessEmbeddings]_vars

\* the texts of at most n characters over two letters
RECURSIVE TextsUpTo(_)
TextsUpTo(n) ==
  IF n = 0 THEN {<< >>}
  ELSE LET shorter == TextsUpTo(n - 1)
       IN shorter \cup { Append(t, c) : t \in shorter, c \in {"a", "b"} }

\* splitText(text, config) is called: an empty text returns at once
SplitCall(text, config) ==
  /\ op.pc = "idle"
  /\ op' = [kind |-> "splitText",
            pc |-> IF Len(text) = 0 THEN "done" ELSE "while",
            loop |-> SplitStart(text, config)]
  /\ UNCHANGED <<store, rev, wr, schema, pipeline>>

\* the while loop of splitText: one more iteration, or the return
SplitStep ==
  /\ op.kind = "splitText"
  /\ op.pc = "while"
  /\ op' = IF SplitGoesOn(op.loop)
             THEN [op EXCEPT !.loop = SplitIteration(op.loop)]
             ELSE [op EXCEPT !.pc = "done"]
  /\ UNCHANGED <<store, rev, wr, schema, pipeline>>

\* splitText on short texts with small configs, and on the long content
\* with storeEntry's setting; a call that was made runs on
NextSplit ==
  \/ \E text \in TextsUpTo(MaxLen), size \in 1..MaxChunk, overlap \in 0..(MaxChunk - 1) :
        /\ overlap < size
        /\ SplitCall(text, [chunkSize |-> size, chunkOverlap |-> overlap])
  \/ \E text \in {Wheat, LongContent} : SplitCall(text, StoreEntryConfig)
  \/ SplitStep
  \/ Return

SpecSplit == InitPipeline /\ [][NextSplit]_vars /\ WF_vars(SplitStep)

\* logEntry calls on the shared CSV logger, interleaved at their awaits
NextCsv ==
  \E c \in 1..MaxCalls :
     \/ LogEntryBegin(c)
     \/ InitializeAccess(c)
     \/ InitializeWriteFile(c)
     \/ LogEntryAppendFile(c)

SpecCsv == InitPipeline /\ [][NextCsv]_vars

\* the gate and the lookups over the scenario stores; a call that awaits the
\* store goes on with the store's answer and with nothing else, and a caller
\* that has its outcome always returns
InitAwait ==
  /\ store \in ScenarioStores
  /\ rev = 0
  /\ wr = NoWrite
  /\ op = Idle
  /\ schema = DeclaredSchema
  /\ PipelineEmpty

NextAwait ==
  \/ \E config \in ExportedMiddlewares, req \in Requests : MwBegin(config, req, TRUE)
  \/ MwAnswer
  \/ \E userId \in Users, permission \in LookupPermissions :
        LookupBegin(userId, "farm", permission)
  \/ LookupAnswer
  \/ Return

SpecAwait == InitAwait /\ [][NextAwait]_vars /\ WF_vars(Return)

----------------------------------------------------------------------------
(* Properties of the gate (specification Spec) *)

MiddlewareDone == op.kind = "middleware" /\ op.pc = "done"

\* the run did not get a positive answer: an extractor threw, the service
\* could not be obtained, or checkPermission threw
CheckFailed ==
  \/ op.config.getUserId = "throws"
  \/ op.config.getResourceId = "throws"
  \/ ~op.tokenSet
  \/ op.checkCalled /\ ~op.answered

SuccessStatus == 200..299

\* C1: fail-closed gate. Whenever the permission check of a finished
\* middleware run failed (store unreachable, undeclared permission, an
\* exception of getSpiceDBService, checkPermission or an ID extractor), next()
\* was not called and the response is not a success response.
C1_FailClosed ==
  (MiddlewareDone /\ CheckFailed) =>
     (~op.nextCalled /\ op.status \notin SuccessStatus)

\* the store was asked about a permission the user holds, the call failed,
\* and the middleware answered 500 without calling next()
C1_Witness ==
  /\ MiddlewareDone
  /\ op.checkCalled /\ ~op.answered
  /\ HasPermission(store, op.params.userId, op.params.resourceType,
                   op.params.resourceId, op.params.permission)
  /\ op.status = 500
  /\ ~op.nextCalled

\* C2: a false answer gives 403 and never proceeds. next() is called only
\* after checkPermission was called with exactly the extracted user ID, the
\* configured resource type, the extracted resource ID and the configured
\* permission and the store answered HAS_PERMISSION; every other
\* permissionship the store answers yields 403 Forbidden without next().
C2_ForbiddenUnlessHasPermission ==
  MiddlewareDone =>
     /\ op.nextCalled =>
          /\ op.checkCalled /\ op.answered
          /\ op.permissionship = "HAS_PERMISSION"
          /\ op.params = [userId |-> ExtractUserId(op.config, op.req).value,
                          resourceType |-> op.config.resourceType,
                          resourceId |-> ExtractResourceId(op.config, op.req).value,
                          permission |-> op.config.permission]
     /\ (op.checkCalled /\ op.answered /\ op.permissionship # "HAS_PERMISSION") =>
          (op.status = 403 /\ ~op.nextCalled)

\* the store answered CONDITIONAL_PERMISSION and the middleware said 403
C2_Witness ==
  /\ MiddlewareDone
  /\ op.answered
  /\ op.permissionship = "CONDITIONAL_PERMISSION"
  /\ op.status = 403
  /\ ~op.nextCalled

Answered ==
  /\ op.kind \in {"middleware", "lookupResources"}
  /\ op.pc = "done"
  /\ op.answered

\* C3: checks and lookups are fully consistent. Every answered checkPermission
\* and lookupResources was evaluated at a revision no older than the head
\* revision at the time the call was issued, so it reflects every write that
\* had completed by then; and when no write followed the evaluation, the
\* answer is the one the current tuples give.
C3_FullyConsistent ==
  Answered =>
     /\ op.checkedAt >= op.issuedAt
     /\ (op.checkedAt = rev /\ op.kind = "middleware") =>
           (op.hasPermission <=>
              HasPermission(store, op.params.userId, op.params.resourceType,
                            op.params.resourceId, op.params.permission))
     /\ (op.checkedAt = rev /\ op.kind = "lookupResources") =>
           ({ op.resourceIds[i] : i \in 1..Len(op.resourceIds) } =
              { r \in Ids(op.resourceType) :
                  HasPermission(store, op.userId, op.resourceType, r, op.permission) })

\* a touch completed, the edit check was issued after it and was granted
C3_Witness ==
  /\ MiddlewareDone
  /\ wr.call = "createRelationship" /\ wr.error = None
  /\ wr.params = Relationship("farm", "farm_1", "owner", "user", "user_alice")
  /\ op.issuedAt = rev
  /\ op.params.userId = "user_alice" /\ op.params.resourceId = "farm_1"
  /\ op.config = harvestEntryEditMiddleware
  /\ op.hasPermission /\ op.nextCalled

----------------------------------------------------------------------------
(* Properties of the schema (specification SpecSchema) *)

\* checkPermission(params) returns this value whenever the store answers
Checks(userId, resourceType, resourceId, permission, value) ==
  CheckValues([userId |-> userId, resourceType |-> resourceType,
               resourceId |-> resourceId, permission |-> permission]) = {value}

\* the relationships of the store that name the user as their subject
UserTuples(u) == { t \in store : t.subjectType = "user" /\ t.subjectId = u }

VerifyDone == op.kind = "verify" /\ op.pc = "done" /\ op.error = None

LookupDone == op.kind = "lookupResources" /\ op.pc = "done" /\ op.answered

FarmPermissions == SchemaPermissions("farm")

\* the permissions verification found the user to hold on the farm
Verified ==
  { p \in FarmPermissions : \/ p = "view" /\ op.canView
                            \/ p = "edit" /\ op.canEdit
                            \/ p = "query" /\ op.canQuery
                            \/ p = "manage" /\ op.canManage }

\* what a step of createRelationship or deleteRelationship does to the
\* permissions: the first never revokes one and the second never grants one
PermissionsPreserved ==
  \/ store' = store
  \/ \A u \in Users, rt \in ResourceTypes :
      \A rid \in Ids(rt), p \in SchemaPermissions(rt) :
      /\ wr'.call = "createRelationship" =>
           (HasPermission(store, u, rt, rid, p) => HasPermission(store', u, rt, rid, p))
      /\ wr'.call = "deleteRelationship" =>
           (~HasPermission(store, u, rt, rid, p) => ~HasPermission(store', u, rt, rid, p))

\* C4: monotonicity over the declared schema. From every store, for every
\* user, resource and declared permission: a permission that holds still
\* holds after createRelationship of any relationship, and a permission that
\* does not hold still does not hold after deleteRelationship of any
\* relationship.
C4_Monotonic == [][PermissionsPreserved]_vars

\* user_alice views farm_1 as a member of its organization org_1, and still
\* does now that createRelationship linked farm_1 to org_2 as well, where she
\* has no role
C4_Witness ==
  /\ wr.call = "createRelationship"
  /\ wr.error = None
  /\ wr.params = Relationship("farm", "farm_1", "organization", "organization", "org_2")
  /\ store = { Relationship("farm", "farm_1", "organization", "organization", "org_1"),
               Relationship("organization", "org_1", "member", "user", "user_alice"),
               Relationship("farm", "farm_1", "organization", "organization", "org_2") }
  /\ HasPermission(store, "user_alice", "farm", "farm_1", "view")

\* the resource ids of a list
Elements(ids) == { ids[i] : i \in 1..Len(ids) }

\* C5: lookup/check consistency. For every store, user, resource type and
\* declared permission, the ids lookupResources returns are exactly the
\* resources of that type for which checkPermission returns true: every
\* returned resource passes the check and every other resource fails it.
C5_LookupMatchesCheck ==
  /\ LookupDone =>
       Elements(op.resourceIds) =
         { r \in Ids(op.resourceType) :
             Checks(op.userId, op.resourceType, r, op.permission, TRUE) }
  /\ op.pc = "idle" =>
       \A u \in Users, rt \in ResourceTypes :
         \A p \in SchemaPermissions(rt) :
           \A response \in StoreLookupResources(store, rev,
                                                LookupResourcesRequest(u, rt, p)) :
             response.ok =>
               /\ \A r \in Elements(CollectResourceIds(response.stream)) :
                     Checks(u, rt, r, p, TRUE)
               /\ \A r \in Ids(rt) \ Elements(CollectResourceIds(response.stream)) :
                     Checks(u, rt, r, p, FALSE)

\* user_bob edits farm_2 only: the lookup returned farm_2 and not farm_1
C5_Witness ==
  /\ LookupDone
  /\ op.userId = "user_bob" /\ op.permission = "edit"
  /\ op.resourceIds = <<"farm_2">>
  /\ Checks("user_bob", "farm", "farm_2", "edit", TRUE)
  /\ Checks("user_bob", "farm", "farm_1", "edit", FALSE)

\* C6: the list lookupResources returns holds no resource id twice, also
\* when the resource is reachable through several paths and the store
\* streams its id in more than one response.
C6_NoDuplicates ==
  (op.kind = "lookupResources" /\ op.pc = "done") =>
     \A i, j \in 1..Len(op.resourceIds) :
        i # j => op.resourceIds[i] # op.resourceIds[j]

\* the user is named in no relationship of the farm
NamedOnFarm(u, f) ==
  \E t \in store : /\ t.resourceType = "farm" /\ t.resourceId = f
                   /\ t.subjectType = "user" /\ t.subjectId = u

\* the user is admin or member of an organization the farm is linked to
InLinkedOrganization(u, f) ==
  \E o \in Orgs :
     /\ Relationship("farm", f, "organization", "organization", o) \in store
     /\ \/ Relationship("organization", o, "admin", "user", u) \in store
        \/ Relationship("organization", o, "member", "user", u) \in store

\* C7: default deny and tenant isolation. A user named in no relationship of
\* farm F who is neither admin nor member of an organization F is linked to
\* is denied view, edit, query and manage on F, whatever roles the user holds
\* on other farms and organizations.
C7_DefaultDeny ==
  \A u \in Users, f \in Farms :
     (~NamedOnFarm(u, f) /\ ~InLinkedOrganization(u, f)) =>
        /\ \A p \in FarmPermissions : Checks(u, "farm", f, p, FALSE)
        /\ (VerifyDone /\ op.userId = u /\ op.farmId = f) => Verified = {}

\* user_bob owns farm_2 and administers org_2, and was verified to hold
\* nothing on farm_1
C7_Witness ==
  /\ VerifyDone
  /\ op.userId = "user_bob" /\ op.farmId = "farm_1"
  /\ store = { Relationship("farm", "farm_2", "owner", "user", "user_bob"),
               Relationship("organization", "org_2", "admin", "user", "user_bob") }
  /\ Verified = {}

\* the permissions the scripts' help text documents for a farm role
RolePermissions(role) ==
  CASE role = "owner" -> {"view", "edit", "query", "manage"}
    [] role = "editor" -> {"view", "edit", "query"}
    [] role = "viewer" -> {"view", "query"}

\* C8: direct farm roles grant exactly the documented permissions. For a
\* user whose only relationship is one direct role on farm F, the farm
\* permissions that check true are {view, query} for viewer, {view, edit,
\* query} for editor and all four for owner.
C8_DirectRoles ==
  \A u \in Users, f \in Farms, role \in {"owner", "editor", "viewer"} :
     UserTuples(u) = { Relationship("farm", f, role, "user", u) } =>
        /\ \A p \in FarmPermissions :
              Checks(u, "farm", f, p, p \in RolePermissions(role))
        /\ (VerifyDone /\ op.userId = u /\ op.farmId = f) =>
              Verified = RolePermissions(role)

\* user_bob is viewer of farm_1 and nothing else: verification found view
\* and query but neither edit nor manage
C8_Witness ==
  /\ VerifyDone
  /\ op.userId = "user_bob" /\ op.farmId = "farm_1"
  /\ store = { Relationship("farm", "farm_1", "viewer", "user", "user_bob") }
  /\ op.canView /\ op.canQuery /\ ~op.canEdit /\ ~op.canManage

\* C9: organization roles are inherited by linked farms. When farm F has an
\* organization relationship to O, an admin of O holds view, edit, query and
\* manage on F and a user whose only relationship is member of O holds view,
\* edit and query but not manage; a user whose only relationships are roles
\* on O holds nothing on F when F is not linked to O.
C9_OrganizationRoles ==
  \A u \in Users, f \in Farms, o \in Orgs :
     LET linked == Relationship("farm", f, "organization", "organization", o) \in store
         admin == Relationship("organization", o, "admin", "user", u)
         member == Relationship("organization", o, "member", "user", u)
     IN /\ (linked /\ admin \in store) =>
             \A p \in FarmPermissions : Checks(u, "farm", f, p, TRUE)
        /\ (linked /\ UserTuples(u) = {member}) =>
             \A p \in FarmPermissions : Checks(u, "farm", f, p, p # "manage")
        /\ (~linked /\ UserTuples(u) # {} /\ UserTuples(u) \subseteq {admin, member}) =>
             \A p \in FarmPermissions : Checks(u, "farm", f, p, FALSE)

\* user_alice administers org_1, farm_2 is linked to org_1, and verification
\* found all four permissions on farm_2
C9_Witness ==
  /\ VerifyDone
  /\ op.userId = "user_alice" /\ op.farmId = "farm_2"
  /\ store = { Relationship("organization", "org_1", "admin", "user", "user_alice"),
               Relationship("farm", "farm_2", "organization", "organization", "org_1") }
  /\ Verified = FarmPermissions

----------------------------------------------------------------------------
(* Revocation (specification Spec) *)

OwnerOfFarm1 == Relationship("farm", "farm_1", "owner", "user", "user_alice")

\* user_alice is admin of an organization farm_1 is linked to
StillAdmin ==
  \E o \in Orgs :
     /\ Relationship("farm", "farm_1", "organization", "organization", o) \in store
     /\ Relationship("organization", o, "admin", "user", "user_alice") \in store

\* deleteRelationship of (farm_1, owner, user_alice) was the last write and succeeded
OwnerDeleted ==
  /\ wr.call = "deleteRelationship"
  /\ wr.error = None
  /\ wr.params = OwnerOfFarm1

\* a manage check of user_alice on farm_1 issued after the last write was answered
ManageCheckedAfter ==
  /\ MiddlewareDone
  /\ op.answered
  /\ op.issuedAt = rev
  /\ op.params = [userId |-> "user_alice", resourceType |-> "farm",
                  resourceId |-> "farm_1", permission |-> "manage"]

\* C10: revocation takes effect. Once deleteRelationship of (farm_1, owner,
\* user_alice) has completed, the relationship is gone, and for as long as it
\* stays gone every manage check of user_alice on farm_1 issued afterwards is
\* false and answered 403, unless she is admin of an organization farm_1 is
\* linked to, in which case it is true and the handler runs.
C10_Revocation ==
  /\ OwnerDeleted => OwnerOfFarm1 \notin store
  /\ (ManageCheckedAfter /\ OwnerOfFarm1 \notin store) =>
        /\ op.hasPermission <=> StillAdmin
        /\ op.nextCalled <=> StillAdmin
        /\ ~StillAdmin => op.status = 403

\* the owner relationship was deleted and the manage check that followed got 403
C10_Witness ==
  /\ OwnerDeleted
  /\ ManageCheckedAfter
  /\ ~StillAdmin
  /\ op.status = 403

----------------------------------------------------------------------------
(* Laws of the schema's operators (specification SpecSchema) *)

CheckDone == op.kind = "checkPermission" /\ op.pc = "done" /\ op.error = None

\* the user is the session's user
SessionUser(u, s) == Relationship("query_session", s, "user", "user", u) \in store

\* the user holds the permission on a farm the session belongs to
OnSessionFarm(u, s, p) ==
  \E f \in Farms : /\ Relationship("query_session", s, "farm", "farm", f) \in store
                   /\ Checks(u, "farm", f, p, TRUE)

\* C11: intersection law, as used by query_session. A user holds execute on a
\* query session exactly when the user is the session's user and holds query
\* on the session's farm, and view_results exactly when the user is the
\* session's user and holds view on the session's farm; either operand alone
\* is denied.
C11_Intersection ==
  /\ \A u \in Users, s \in Sessions :
        /\ Checks(u, "query_session", s, "execute",
                  SessionUser(u, s) /\ OnSessionFarm(u, s, "query"))
        /\ Checks(u, "query_session", s, "view_results",
                  SessionUser(u, s) /\ OnSessionFarm(u, s, "view"))
  /\ (CheckDone /\ op.params.resourceType = "query_session") =>
        (op.value <=>
           /\ SessionUser(op.params.userId, op.params.resourceId)
           /\ OnSessionFarm(op.params.userId, op.params.resourceId,
                            IF op.params.permission = "execute" THEN "query" ELSE "view"))

\* user_alice is the user of session_1, the session has no farm on which she
\* holds query, and her execute check was denied
C11_Witness ==
  /\ CheckDone
  /\ op.params = [userId |-> "user_alice", resourceType |-> "query_session",
                  resourceId |-> "session_1", permission |-> "execute"]
  /\ SessionUser("user_alice", "session_1")
  /\ Relationship("query_session", "session_1", "farm", "farm", "farm_1") \in store
  /\ ~OnSessionFarm("user_alice", "session_1", "query")
  /\ ~op.value

\* the user holds the direct role on the farm
DirectRole(u, f, role) == Relationship("farm", f, role, "user", u) \in store

\* the user holds the permission on an organization the farm is linked to
ThroughOrganization(u, f, p) ==
  \E o \in Orgs :
     /\ Relationship("farm", f, "organization", "organization", o) \in store
     /\ Checks(u, "organization", o, p, TRUE)

\* the user is admin of an organization the farm is linked to
ThroughOrganizationAdmin(u, f) ==
  \E o \in Orgs :
     /\ Relationship("farm", f, "organization", "organization", o) \in store
     /\ Relationship("organization", o, "admin", "user", u) \in store

\* one operand of a permission expression, evaluated on its own
OperandHolds(st, u, rt, rid, a) ==
  IF a.kind = "relation"
    THEN Relationship(rt, rid, a.rel, "user", u) \in st
    ELSE \E x \in Ids(a.type) :
            /\ Relationship(rt, rid, a.rel, a.type, x) \in st
            /\ HasPermission(st, u, a.type, x, a.perm)

\* a union evaluated operand by operand in the given order, stopping at the
\* first operand that holds
RECURSIVE ShortCircuit(_, _, _, _, _)
ShortCircuit(st, u, rt, rid, operands) ==
  IF operands = << >> THEN FALSE
  ELSE IF OperandHolds(st, u, rt, rid, Head(operands)) THEN TRUE
  ELSE ShortCircuit(st, u, rt, rid, Tail(operands))

\* the operands of the union that defines the permission
UnionOperands(rt, p) == UNION PermissionExpr(rt, p)

\* what the farm's unions come to for the user
FarmUnion(u, f, p) ==
  CASE p = "view" -> \/ DirectRole(u, f, "viewer") \/ DirectRole(u, f, "editor")
                     \/ DirectRole(u, f, "owner") \/ ThroughOrganization(u, f, "view")
    [] p = "edit" -> \/ DirectRole(u, f, "editor") \/ DirectRole(u, f, "owner")
                     \/ ThroughOrganization(u, f, "edit")
    [] p = "query" -> \/ DirectRole(u, f, "viewer") \/ DirectRole(u, f, "editor")
                      \/ DirectRole(u, f, "owner") \/ ThroughOrganization(u, f, "query")
    [] p = "manage" -> DirectRole(u, f, "owner") \/ ThroughOrganizationAdmin(u, f)

\* C12: union law. For every store, user and resource, the check of a union
\* A + B is true exactly when the check of A or the check of B is: farm view
\* holds iff the user is viewer, editor or owner or holds view on a linked
\* organization (likewise edit, query, manage and the organization's unions),
\* and evaluating the operands in any order, stopping at the first that
\* holds, gives the same result.
C12_Union ==
  /\ op.pc = "idle" =>
        \A u \in Users, f \in Farms, p \in FarmPermissions :
           Checks(u, "farm", f, p, FarmUnion(u, f, p))
  /\ op.pc = "idle" =>
        \A u \in Users, o \in Orgs, p \in {"view", "edit", "query"} :
           Checks(u, "organization", o, p,
                  \/ Relationship("organization", o, "admin", "user", u) \in store
                  \/ Relationship("organization", o, "member", "user", u) \in store)
  /\ VerifyDone =>
        /\ op.canView = FarmUnion(op.userId, op.farmId, "view")
        /\ op.canEdit = FarmUnion(op.userId, op.farmId, "edit")
        /\ op.canQuery = FarmUnion(op.userId, op.farmId, "query")
        /\ op.canManage = FarmUnion(op.userId, op.farmId, "manage")
  /\ op.pc = "idle" =>
        \A u \in Users, rt \in {"organization", "farm"} :
          \A rid \in Ids(rt), p \in SchemaPermissions(rt) :
            \A order \in Orderings(UnionOperands(rt, p)) :
               Checks(u, rt, rid, p, ShortCircuit(store, u, rt, rid, order))

\* user_alice is editor of farm_2 only: view holds through the second operand
\* of viewer + editor + owner + organization->view, and manage does not hold
C12_Witness ==
  /\ VerifyDone
  /\ op.userId = "user_alice" /\ op.farmId = "farm_2"
  /\ store = { Relationship("farm", "farm_2", "editor", "user", "user_alice") }
  /\ ~DirectRole("user_alice", "farm_2", "viewer")
  /\ op.canView /\ op.canEdit /\ op.canQuery /\ ~op.canManage

\* the resources reachable from rt:rid by the relation
Targets(rt, rid, rel, tt) ==
  { x \in Ids(tt) : Relationship(rt, rid, rel, tt, x) \in store }

\* the user holds the permission on at least one of the resources
OnSomeTarget(u, tt, targets, p) == \E x \in targets : Checks(u, tt, x, p, TRUE)

\* C13: traversal has OR semantics over its targets. rel->perm on resource R
\* is true exactly when at least one resource reachable from R by rel
\* satisfies perm for the user, and false with no target: a harvest entry is
\* viewed and edited exactly by those who view and edit one of its farms, an
\* entry without farm by nobody, and a farm without organization inherits
\* nothing.
C13_TraversalAnyTarget ==
  /\ op.pc = "idle" =>
       \A u \in Users, e \in Entries :
          LET farms == Targets("harvest_entry", e, "farm", "farm")
          IN /\ \A p \in {"view", "edit"} :
                   Checks(u, "harvest_entry", e, p, OnSomeTarget(u, "farm", farms, p))
             /\ Checks(u, "harvest_entry", e, "delete",
                       \/ Relationship("harvest_entry", e, "creator", "user", u) \in store
                       \/ OnSomeTarget(u, "farm", farms, "manage"))
             /\ farms = {} => /\ Checks(u, "harvest_entry", e, "view", FALSE)
                              /\ Checks(u, "harvest_entry", e, "edit", FALSE)
  /\ op.pc = "idle" =>
       \A u \in Users, f \in Farms :
          LET orgs == Targets("farm", f, "organization", "organization")
          IN /\ \A p \in {"view", "edit", "query"} :
                   (~NamedOnFarm(u, f)) =>
                      Checks(u, "farm", f, p, OnSomeTarget(u, "organization", orgs, p))
             /\ (orgs = {} /\ ~NamedOnFarm(u, f)) =>
                   \A p \in FarmPermissions : Checks(u, "farm", f, p, FALSE)
  /\ (CheckDone /\ op.params.resourceType = "harvest_entry"
                /\ op.params.permission \in {"view", "edit"}) =>
       (op.value <=>
          OnSomeTarget(op.params.userId, "farm",
                       Targets("harvest_entry", op.params.resourceId, "farm", "farm"),
                       op.params.permission))
  /\ (VerifyDone /\ ~NamedOnFarm(op.userId, op.farmId)) =>
       (op.canView <=>
          OnSomeTarget(op.userId, "organization",
                       Targets("farm", op.farmId, "organization", "organization"), "view"))

\* farm_1 is linked to org_1 and org_2 and user_alice is member of org_1 only:
\* verification found that she views farm_1
C13_Witness ==
  /\ VerifyDone
  /\ op.userId = "user_alice" /\ op.farmId = "farm_1"
  /\ store = TwoOrganizationsStore
  /\ Targets("farm", "farm_1", "organization", "organization") = {"org_1", "org_2"}
  /\ Checks("user_alice", "organization", "org_2", "view", FALSE)
  /\ op.canView /\ ~op.canManage

\* the user holds the permission on every one of the resources
OnEveryTarget(u, tt, targets, p) == \A x \in targets : Checks(u, tt, x, p, TRUE)

\* the premise of the traversal as the data model words it
EveryTarget(u, tt, targets, p) == OnEveryTarget(u, tt, targets, p)

\* the same premise, for a resource that has a target
EveryTargetOfSome(u, tt, targets, p) ==
  targets # {} /\ OnEveryTarget(u, tt, targets, p)

\* rel->perm is granted where the premise holds: on the entry through
\* farm->perm, and on the farm, for a user with no role on it, through
\* organization->perm
GrantedWhereEveryTargetOfSome ==
  /\ \A u \in Users, e \in Entries, p \in {"view", "edit"} :
        EveryTargetOfSome(u, "farm", Targets("harvest_entry", e, "farm", "farm"), p) =>
           Checks(u, "harvest_entry", e, p, TRUE)
  /\ \A u \in Users, f \in Farms, p \in {"view", "edit", "query"} :
        (/\ ~NamedOnFarm(u, f)
         /\ EveryTargetOfSome(u, "organization",
                              Targets("farm", f, "organization", "organization"), p)) =>
           Checks(u, "farm", f, p, TRUE)

\* C14 as stated: rel->perm on resource R is true if, for every resource
\* reachable from R by rel, the user holds perm on it.
C14_TraversalEveryTarget ==
  /\ (/\ CheckDone
      /\ op.params.resourceType = "harvest_entry"
      /\ op.params.permission \in {"view", "edit"}
      /\ EveryTarget(op.params.userId, "farm",
                     Targets("harvest_entry", op.params.resourceId, "farm", "farm"),
                     op.params.permission)) => op.value
  /\ (/\ VerifyDone
      /\ ~NamedOnFarm(op.userId, op.farmId)
      /\ EveryTarget(op.userId, "organization",
                     Targets("farm", op.farmId, "organization", "organization"),
                     "view")) => op.canView

\* C14, amended: rel->perm on resource R is true if R has at least one
\* resource reachable by rel and the user holds perm on every one of them
\* (for a farm linked to two organizations, organization->view holds when the
\* user holds view on both); when R has no such resource it is false.
C14_TraversalEveryTargetOfSome ==
  /\ op.pc = "idle" => GrantedWhereEveryTargetOfSome
  /\ op.pc = "idle" =>
        \A u \in Users, e \in Entries, p \in {"view", "edit"} :
           Targets("harvest_entry", e, "farm", "farm") = {} =>
              Checks(u, "harvest_entry", e, p, FALSE)
  /\ (/\ VerifyDone
      /\ ~NamedOnFarm(op.userId, op.farmId)
      /\ EveryTargetOfSome(op.userId, "organization",
                           Targets("farm", op.farmId, "organization", "organization"),
                           "view")) => op.canView

\* farm_1 is linked to org_1 and org_2, user_alice is member of both, and
\* verification found that she views farm_1
C14_Witness ==
  /\ VerifyDone
  /\ op.userId = "user_alice" /\ op.farmId = "farm_1"
  /\ store = BothOrganizationsStore
  /\ EveryTargetOfSome("user_alice", "organization", {"org_1", "org_2"}, "view")
  /\ op.canView

----------------------------------------------------------------------------
(* Evaluation (specification Spec) *)

\* the traversal hops the evaluation of a permission can take
RECURSIVE Hops(_, _)
Hops(rt, p) ==
  LET arrows == { a \in UNION PermissionExpr(rt, p) : a.kind = "arrow" }
      below == { Hops(a.type, a.perm) : a \in arrows }
  IN IF arrows = {} THEN 0
     ELSE 1 + CHOOSE h \in below : \A k \in below : k <= h

\* the call repeats one that was answered at the same revision of the store
RepeatedCheck ==
  /\ op.kind = "checkPermission"
  /\ op.pc = "done"
  /\ op.error = None
  /\ op.previous.error = None
  /\ op.previous.rev = op.rev

\* C15: check terminates and is deterministic. Over the declared schema the
\* evaluation of every permission takes at most two traversal hops (entry ->
\* farm -> organization), so it ends, and two checks of the same user,
\* resource and permission with no write to the store between them return
\* the same value.
C15_Deterministic ==
  /\ \A rt \in ResourceTypes : \A p \in SchemaPermissions(rt) : Hops(rt, p) <= 2
  /\ RepeatedCheck => op.value = op.previous.value

\* user_alice owns farm_1; her manage check was repeated with no write in
\* between and both calls returned true
C15_Witness ==
  /\ RepeatedCheck
  /\ op.params.userId = "user_alice"
  /\ OwnerOfFarm1 \in store
  /\ op.previous.value
  /\ op.value

----------------------------------------------------------------------------
(* Frame (specification Spec) *)

\* the step is a successful relationship write: the store differs by the
\* written relationship alone and the caller holds it as written
RelationshipWritten ==
  /\ rev' = rev + 1
  /\ wr'.error = None
  /\ \/ wr'.call = "createRelationship" /\ store' = store \cup {wr'.params}
     \/ wr'.call = "deleteRelationship" /\ store' = store \ {wr'.params}

\* the step is a successful schema write
SchemaWritten == wr'.call = "writeSchema" /\ wr'.error = None

\* C16: evaluation never mutates the store. Every step of checkPermission,
\* lookupResources and the authorization middleware, whatever its outcome,
\* leaves the relationships, the revision and the schema as they were; the
\* relationships change only in a step of createRelationship or
\* deleteRelationship and the schema only in a step of writeSchema.
C16_Frame ==
  [][ /\ op' # op => (store' = store /\ rev' = rev /\ schema' = schema)
      /\ (store' # store \/ rev' # rev) => (RelationshipWritten /\ op' = op)
      /\ schema' # schema => (SchemaWritten /\ op' = op) ]_vars

\* a middleware run was granted and called the handler at the revision the
\* sample permissions were written at
C16_Witness ==
  /\ MiddlewareDone
  /\ op.nextCalled
  /\ op.issuedAt = rev
  /\ rev = 3
  /\ store = SampleStore
  /\ schema = DeclaredSchema

----------------------------------------------------------------------------
(* Writes (specification Spec) *)

\* the store accepts the call made once more and stays as it is
RepeatChangesNothing(request) ==
  /\ UpdatesAccepted(store', request.updates)
  /\ ApplyUpdates(store', request.updates) = store'

\* C17: relationship writes are idempotent. createRelationship of a
\* relationship the store holds succeeds and leaves the store unchanged,
\* deleteRelationship of a relationship it does not hold succeeds and leaves
\* it unchanged, and after either call the store accepts the same call again
\* and stays as it is, so that checks answer as after the first call.
C17_Idempotent ==
  [][ rev' = rev + 1 =>
        /\ wr'.error = None
        /\ wr'.call = "createRelationship" =>
              /\ wr'.params \in store => store' = store
              /\ wr'.params \in store'
              /\ RepeatChangesNothing(CreateRelationshipRequest(wr'.params))
        /\ wr'.call = "deleteRelationship" =>
              /\ wr'.params \notin store => store' = store
              /\ wr'.params \notin store'
              /\ RepeatChangesNothing(DeleteRelationshipRequest(wr'.params)) ]_vars

\* the first write to the store was a deleteRelationship: it succeeded though
\* the store held nothing, and the store still holds nothing
C17_Witness ==
  /\ rev = 1
  /\ wr.call = "deleteRelationship"
  /\ wr.error = None
  /\ wr.params = OwnerOfFarm1
  /\ store = {}

----------------------------------------------------------------------------
(* Data isolation (specification SpecPipeline) *)

\* the farms the logged requester of the query may query
QueryableFarms(entryId) ==
  { f \in Farms : \E l \in log : /\ l.entryId = entryId
                                 /\ l.userId # None
                                 /\ HasPermission(store, l.userId, "farm", f, "query") }

\* C18: a user accesses only the data they have permission to see. The
\* context retrieved for a query comes only from harvest entries stored for
\* farms on which the requesting user holds the query permission; entries
\* stored under another farm never reach it.
C18_DataIsolation ==
  \A r \in responses :
     \A v \in vectors :
        v.id \in r.sources => v.farmId \in QueryableFarms(r.entryId)

----------------------------------------------------------------------------
(* Properties of calls that await the store (specification SpecAwait) *)

\* C19: no operation blocks indefinitely: a call of the service that awaits
\* the store ends, with the store's answer or with an error when the store
\* never answers, so every run of the middleware that has called
\* checkPermission returns a response
C19_NoHang == (op.pc = "awaiting") ~> (op.pc = "done")

----------------------------------------------------------------------------
(* Properties of failed writes (specification Spec) *)

\* C20: a write the store did not apply leaves the caller with the store's
\* own error and leaves the store and its schema as they were
C20_Verbatim ==
  [][ (wr' # wr /\ wr'.error # None) =>
        /\ wr'.error = wr'.cause
        /\ store' = store
        /\ schema' = schema ]_vars

----------------------------------------------------------------------------
(* Properties of the documented calls (specification SpecSchema) *)

\* C21: the audit call lookupResources('farm_1', 'user', 'edit') returns all
\* users with edit access to farm_1
C21_AuditLookup ==
  ( /\ op.kind = "lookupResources"
    /\ op.pc = "done"
    /\ op.userId = "farm_1"
    /\ op.resourceType = "user"
    /\ op.permission = "edit"
    /\ \E u \in Users : HasPermission(store, u, "farm", "farm_1", "edit")) =>
     /\ op.error = None
     /\ Elements(op.resourceIds) =
          { u \in Users : HasPermission(store, u, "farm", "farm_1", "edit") }

----------------------------------------------------------------------------
(* Properties of requests that name no user or no resource (specification Spec) *)

NoUserId == op.req.xUserId = None /\ op.req.bodyUserId = None

NoResourceId ==
  op.req.farmId = None /\ op.req.organizationId = None /\ op.req.pathId = None

\* C22: missing identifiers are rejected before any permission check. With
\* the default extractors, a request without x-user-id and body.userId gets
\* 401 Unauthorized, whether or not it names a resource; a request with a user
\* id and without body.farmId, body.organizationId and path id gets 400; in
\* both cases checkPermission is not called and the handler is not invoked.
C22_MissingIds ==
  (MiddlewareDone /\ op.config.getUserId = None) =>
     /\ NoUserId =>
          /\ op.status = 401
          /\ op.error = "Unauthorized"
          /\ ~op.checkCalled
          /\ ~op.nextCalled
     /\ (~NoUserId /\ NoResourceId /\ op.config.getResourceId = None) =>
          /\ op.status = 400
          /\ op.error = "Bad Request"
          /\ ~op.checkCalled
          /\ ~op.nextCalled

C22_Witness ==
  /\ MiddlewareDone
  /\ NoUserId
  /\ NoResourceId
  /\ op.status = 401

----------------------------------------------------------------------------
(* Properties of the API steps behind the gate (specification SpecPipeline) *)

\* C23: a request the authorization middleware answers with 401, 400, 403 or
\* 500 has no side effects: no harvest-entries record is written and no event
\* is emitted for it; for a request answered with 200 the farmId and userId
\* kept in harvest-entries and in the metadata of process-embeddings are the
\* farm and the user the check returned true for
C23_NoSideEffects ==
  [][ (op.pc # "done" /\ op'.kind = "middleware" /\ op'.pc = "done") =>
        /\ op'.status \in {400, 401, 403, 500} =>
              /\ entries' = entries
              /\ events' = events
        /\ op'.status = 200 =>
              /\ op'.hasPermission
              /\ \A en \in entries' \ entries :
                    /\ en.farmId = op'.params.resourceId
                    /\ en.userId = op'.params.userId
              /\ \A e \in events' \ events :
                    e.topic = "process-embeddings" =>
                       /\ e.farmId = op'.params.resourceId
                       /\ e.userId = op'.params.userId ]_vars

\* C24: when POST /harvest_logbook carries a query together with the data,
\* the query is run against the stored data: the QueryAgent retrieval for that
\* entry happens only after ProcessEmbeddings has upserted the vectors of the
\* entry, under every interleaving of the two handlers
C24_QueryAfterStore ==
  [][ \A r \in responses' \ responses :
         (\E en \in entries : en.entryId = r.entryId /\ en.query # None) =>
            \E v \in vectors : v.id[1] = r.entryId ]_vars

\* the log-to-sheets events the step handles: LogToSheets has logged the
\* outcome for their entry
LoggedInStep ==
  { e \in events : /\ e.topic = "log-to-sheets"
                   /\ \E l \in log' \ log : l.step = "LogToSheets" /\ l.entryId = e.entryId }

\* C25: logging failures never break the main flow. Whatever logToSheets
\* does, the LogToSheets handler completes: its event is done and not
\* delivered again, and the responses kept in agent-responses stay as they
\* are; a log-to-sheets event is emitted only once the response of its query
\* is kept in agent-responses
C25_LoggingNeverBreaks ==
  [][ /\ LoggedInStep # {} =>
           /\ \E e \in LoggedInStep : e \notin events'
           /\ responses' = responses
      /\ \A e \in events' \ events :
           e.topic = "log-to-sheets" =>
              \E r \in responses' : r.entryId = e.entryId /\ r.query = e.query ]_vars

C25_Witness ==
  /\ \E l \in log : l.step = "LogToSheets" /\ l.error # None
  /\ \E l \in log, r \in responses : /\ l.step = "LogToSheets"
                                     /\ l.error # None
                                     /\ r.entryId = l.entryId
  /\ \A e \in events : e.topic # "log-to-sheets"

----------------------------------------------------------------------------
(* Hierarchy of the permissions (specification SpecSchema) *)

\* whoever checks true for the first permission checks true for the second
Implies(u, rt, r, p, q) == Checks(u, rt, r, p, TRUE) => Checks(u, rt, r, q, TRUE)

\* C26: farm permissions form a hierarchy in every store state: for every
\* user and farm, manage implies edit, edit implies view, and view holds
\* exactly when query holds; every harvest entry a user may edit they may
\* also view
C26_Hierarchy ==
  /\ op.pc = "idle" =>
        /\ \A u \in Users, f \in Farms :
              /\ Implies(u, "farm", f, "manage", "edit")
              /\ Implies(u, "farm", f, "edit", "view")
              /\ Implies(u, "farm", f, "view", "query")
              /\ Implies(u, "farm", f, "query", "view")
        /\ \A u \in Users, e \in Entries :
              Implies(u, "harvest_entry", e, "edit", "view")
  /\ VerifyDone =>
        /\ op.canManage => op.canEdit
        /\ op.canEdit => op.canView
        /\ op.canView <=> op.canQuery
  /\ (CheckDone /\ op.params.resourceType = "harvest_entry"
        /\ op.params.permission = "edit" /\ op.value) =>
        Checks(op.params.userId, "harvest_entry", op.params.resourceId, "view", TRUE)

\* user_bob is viewer of farm_1 and editor of farm_2, and was verified to
\* view and query farm_1 without editing it
C26_Witness ==
  /\ VerifyDone
  /\ op.userId = "user_bob" /\ op.farmId = "farm_1"
  /\ store = { Relationship("farm", "farm_1", "viewer", "user", "user_bob"),
               Relationship("farm", "farm_2", "editor", "user", "user_bob") }
  /\ op.canView /\ op.canQuery /\ ~op.canEdit /\ ~op.canManage

----------------------------------------------------------------------------
(* Properties of generated ids (specification SpecIds) *)

\* C27: entry identifiers are unique per request. Two accepted requests that
\* supply no id get distinct ids, also when they are handled in the same
\* millisecond, so the harvest-entries record of one request is never
\* overwritten by that of another
C27_UniqueIds == [][entries \subseteq entries']_vars

----------------------------------------------------------------------------
(* Properties of the CSV logger (specification SpecCsv) *)

\* C28: under any interleaving of concurrent logEntry calls on the shared
\* logger, the first calls included, the file holds exactly one header line
\* followed by one row per completed call: no row is lost to another call's
\* initialize()
C28_RowsKept ==
  /\ Len(csv.lines) > 0 =>
        /\ csv.lines[1] = Headers
        /\ \A i \in 2..Len(csv.lines) : csv.lines[i] # Headers
  /\ \A c \in 1..MaxCalls :
        csv.pc[c] = "done" =>
           Cardinality({ i \in 2..Len(csv.lines) : csv.lines[i] = Row(c) }) = 1

----------------------------------------------------------------------------
(* Properties of retried embeddings (specification SpecRetry) *)

\* harvest-vectors lists the ids '<entryId>-chunk-<i>' of the chunks of the
\* event's content, and the index holds one vector under each, with the
\* text of the chunk
ExactlyTheChunks(rec, e, index) ==
  LET chunks == SplitText(e.content, StoreEntryConfig)
  IN /\ rec.chunkCount = Len(chunks)
     /\ Len(rec.vectorIds) = Len(chunks)
     /\ \A i \in 1..Len(chunks) :
           /\ rec.vectorIds[i] = <<e.entryId, i - 1>>
           /\ Cardinality({ v \in index : v.id = rec.vectorIds[i] }) = 1
           /\ \A v \in index : v.id = rec.vectorIds[i] => v.text = chunks[i].text

\* C29: retrying ProcessEmbeddings is idempotent on the vector store. The
\* event stays to be delivered again until the handler succeeds, and after
\* any number of failed attempts followed by a success the index holds
\* exactly one vector per chunk of the entry, under '<entryId>-chunk-<i>',
\* and harvest-vectors[entryId] lists exactly those ids
C29_RetryIdempotent ==
  [][ /\ \A e \in events \ events' :
            e.topic = "process-embeddings" =>
               \E rec \in vectorIds' :
                  /\ rec.entryId = e.entryId
                  /\ ExactlyTheChunks(rec, e, vectors')
      /\ \A rec \in vectorIds' \ vectorIds :
            \E e \in events \ events' :
               /\ rec.entryId = e.entryId
               /\ ExactlyTheChunks(rec, e, vectors') ]_vars

\* the two chunks of an entry are stored and listed, in an index that held
\* other vectors under the same ids
C29_Witness ==
  /\ events = {}
  /\ \E rec \in vectorIds :
        /\ rec.entryId = HarvestId(1)
        /\ rec.chunkCount = 2
        /\ Cardinality({ v \in vectors : v.id[1] = HarvestId(1) }) = 2
        /\ \A v \in vectors : v.id[1] = HarvestId(1) => v.farmId = "farm_1"
        /\ \A v \in vectors : v.id = <<HarvestId(1), 0>> => Len(v.text) = 400

----------------------------------------------------------------------------
(* Properties of the text splitter (specification SpecSplit) *)

SplitDone == op.kind = "splitText" /\ op.pc = "done"

\* what splitText returns for its text and config
SplitResult ==
  LET text == op.loop.text
      config == op.loop.config
      chunks == op.loop.chunks
      n == Len(chunks)
  IN /\ Len(text) = 0 <=> n = 0
     /\ n > 0 => chunks[1].startChar = 0
     /\ \A i \in 1..n :
           /\ chunks[i].index = i - 1
           /\ Len(chunks[i].text) <= config.chunkSize
           /\ Len(chunks[i].text) = chunks[i].endChar - chunks[i].startChar
           /\ \A k \in 1..Len(chunks[i].text) :
                 chunks[i].text[k] = text[chunks[i].startChar + k]
     /\ \A i \in 1..(n - 1) :
           chunks[i + 1].startChar - chunks[i].startChar
             = config.chunkSize - config.chunkOverlap
     /\ \A k \in 0..(Len(text) - 1) :
           \E i \in 1..n : chunks[i].startChar <= k /\ k < chunks[i].endChar

\* C30: splitText terminates for every text and every config with
\* 0 <= chunkOverlap < chunkSize, the 400/40 setting of storeEntry included;
\* its result has the indices 0..n-1 in order, every chunk at most chunkSize
\* characters long, consecutive chunks starting exactly chunkSize -
\* chunkOverlap characters apart, and the chunks together cover every
\* character of the text; the empty text yields no chunks
C30_SplitText ==
  /\ [](SplitDone => SplitResult)
  /\ (op.kind = "splitText") ~> SplitDone

\* the text "abab" was split with chunkSize 3 and chunkOverlap 1 into the
\* chunks "aba" and "ab"
C30_Witness ==
  /\ SplitDone
  /\ op.loop.text = <<"a", "b", "a", "b">>
  /\ op.loop.config = [chunkSize |-> 3, chunkOverlap |-> 1]
  /\ Len(op.loop.chunks) = 2
  /\ op.loop.chunks[2].text = <<"a", "b">>

====
